---- MODULE Spec2Model ----
(***************************************************************************)
(* Version model and resolution engine of check-updates.                   *)
(*                                                                         *)
(* Strings are sequences of one-character strings.  An Option<T> is a      *)
(* sequence of length 0 (None) or 1 (Some).  A Result<T,E> is a record     *)
(* with an "ok" flag.                                                      *)
(***************************************************************************)
EXTENDS Integers, Sequences, FiniteSets, TLC

(***************************************************************************)
(* Bounds of the model.                                                    *)
(***************************************************************************)
\* version components of the generated version literals range over 0..Max*
MaxMajor == 2
MaxMinor == 1
MaxPatch == 1
\* number of versions a registry answer may list
MaxAvail == 2
\* number of characters of a free-form input string
MaxLen == 3
\* number of checks handed to the file updater
MaxChecks == 2
MaxNames == 3
MaxQueued == 1

(***************************************************************************)
(* Option and string helpers (Rust std).                                   *)
(***************************************************************************)
None == << >>
Some(x) == << x >>
IsSome(o) == Len(o) = 1
IsNone(o) == Len(o) = 0
Unwrap(o) == o[1]

\* byte value of the characters the model uses (ASCII)
Code(c) ==
    CASE c = " " -> 32 [] c = "!" -> 33 [] c = "*" -> 42 [] c = "+" -> 43
      [] c = "," -> 44 [] c = "-" -> 45 [] c = "." -> 46
      [] c = "0" -> 48 [] c = "1" -> 49 [] c = "2" -> 50 [] c = "3" -> 51
      [] c = "4" -> 52 [] c = "5" -> 53 [] c = "6" -> 54 [] c = "7" -> 55
      [] c = "8" -> 56 [] c = "9" -> 57
      [] c = "<" -> 60 [] c = "=" -> 61 [] c = ">" -> 62
      [] c = "A" -> 65 [] c = "B" -> 66 [] c = "C" -> 67 [] c = "R" -> 82
      [] c = "^" -> 94
      [] c = "a" -> 97 [] c = "b" -> 98 [] c = "c" -> 99 [] c = "d" -> 100
      [] c = "e" -> 101 [] c = "f" -> 102 [] c = "h" -> 104 [] c = "l" -> 108
      [] c = "o" -> 111 [] c = "p" -> 112 [] c = "r" -> 114 [] c = "s" -> 115
      [] c = "t" -> 116 [] c = "v" -> 118 [] c = "x" -> 120
      [] c = "~" -> 126

IsDigit(c) == Code(c) >= 48 /\ Code(c) <= 57
DigitVal(c) == Code(c) - 48
DigitChar(d) ==
    CASE d = 0 -> "0" [] d = 1 -> "1" [] d = 2 -> "2" [] d = 3 -> "3"
      [] d = 4 -> "4" [] d = 5 -> "5" [] d = 6 -> "6" [] d = 7 -> "7"
      [] d = 8 -> "8" [] d = 9 -> "9"

\* char::to_lowercase on the ASCII letters of the model
LowerChar(c) ==
    CASE c = "A" -> "a" [] c = "B" -> "b" [] c = "C" -> "c" [] c = "R" -> "r"
      [] OTHER -> c

\* str::to_lowercase
ToLowercase(s) == [i \in 1..Len(s) |-> LowerChar(s[i])]

\* &s[from..to) with 0-based byte offsets
Slice(s, from, to) == IF to <= from THEN << >> ELSE SubSeq(s, from + 1, to)

\* str::starts_with
StartsWith(s, p) == Len(p) <= Len(s) /\ SubSeq(s, 1, Len(p)) = p

\* str::strip_prefix : Option<&str>
StripPrefix(s, p) ==
    IF StartsWith(s, p) THEN Some(Slice(s, Len(p), Len(s))) ELSE None

\* 0-based offsets at which p occurs in s
Occurrences(s, p) ==
    {i \in 0..(Len(s) - Len(p)) : SubSeq(s, i + 1, i + Len(p)) = p}

\* str::find : Option<usize>
Find(s, p) ==
    LET occ == Occurrences(s, p)
    IN  IF occ = {} THEN None
        ELSE Some(CHOOSE i \in occ : \A j \in occ : i <= j)

\* str::contains
Contains(s, p) == Occurrences(s, p) # {}

\* str::trim (ASCII space is the only whitespace of the model)
RECURSIVE TrimStart(_)
TrimStart(s) ==
    IF s # << >> /\ Head(s) = " " THEN TrimStart(Tail(s)) ELSE s

RECURSIVE TrimEnd(_)
TrimEnd(s) ==
    IF s # << >> /\ s[Len(s)] = " "
    THEN TrimEnd(SubSeq(s, 1, Len(s) - 1)) ELSE s

Trim(s) == TrimEnd(TrimStart(s))

\* str::split(ch).collect::<Vec<&str>>() : never empty
RECURSIVE Split(_, _)
Split(s, ch) ==
    LET f == Find(s, << ch >>)
    IN  IF IsNone(f) THEN << s >>
        ELSE << Slice(s, 0, Unwrap(f)) >>
               \o Split(Slice(s, Unwrap(f) + 1, Len(s)), ch)

\* str::replace(p, "") : removes the non-overlapping occurrences of p
RECURSIVE Remove(_, _)
Remove(s, p) ==
    LET f == Find(s, p)
    IN  IF IsNone(f) THEN s
        ELSE Slice(s, 0, Unwrap(f))
               \o Remove(Slice(s, Unwrap(f) + Len(p), Len(s)), p)

\* <u64 as FromStr>::from_str : Option<u64>.  A leading '+' (which Rust
\* accepts) never reaches it: Version::from_str cuts the string at the
\* first '+'.  Literals of the model are far below 2^64.
RECURSIVE DigitsVal(_)
DigitsVal(s) ==
    IF s = << >> THEN 0
    ELSE 10 * DigitsVal(SubSeq(s, 1, Len(s) - 1)) + DigitVal(s[Len(s)])

ParseU64(s) ==
    IF s # << >> /\ \A i \in 1..Len(s) : IsDigit(s[i])
    THEN Some(DigitsVal(s)) ELSE None

\* format!("{}", n) for an unsigned integer
RECURSIVE FmtU64(_)
FmtU64(n) ==
    IF n < 10 THEN << DigitChar(n) >>
    ELSE FmtU64(n \div 10) \o << DigitChar(n % 10) >>

\* <str as Ord>::cmp : byte-wise lexicographic, -1 / 0 / 1
RECURSIVE StrCmp(_, _)
StrCmp(a, b) ==
    IF a = << >> /\ b = << >> THEN 0
    ELSE IF a = << >> THEN -1
    ELSE IF b = << >> THEN 1
    ELSE IF Code(Head(a)) < Code(Head(b)) THEN -1
    ELSE IF Code(Head(a)) > Code(Head(b)) THEN 1
    ELSE StrCmp(Tail(a), Tail(b))

\* <u64 as Ord>::cmp
NumCmp(x, y) == IF x < y THEN -1 ELSE IF x > y THEN 1 ELSE 0

(***************************************************************************)
(* Version (core/src/version.rs).                                          *)
(***************************************************************************)
\* struct Version
MkVersion(major, minor, patch, pre_release, local, original) ==
    [major |-> major, minor |-> minor, patch |-> patch,
     pre_release |-> pre_release, local |-> local, original |-> original]

\* Version::new
VersionNew(major, minor, patch) ==
    MkVersion(major, minor, patch, None, None,
              FmtU64(major) \o <<".">> \o FmtU64(minor) \o <<".">> \o FmtU64(patch))

\* Version::is_prerelease
is_prerelease(v) == IsSome(v.pre_release)

\* a plausible slip: the equality #[derive(PartialEq)] would give
VersionEqDerived(a, b) ==
    /\ a.major = b.major
    /\ a.minor = b.minor
    /\ a.patch = b.patch
    /\ a.pre_release = b.pre_release
    /\ a.local = b.local
    /\ a.original = b.original

\* impl PartialEq for Version
VersionEq(a, b) ==
    /\ a.major = b.major
    /\ a.minor = b.minor
    /\ a.patch = b.patch
    /\ a.pre_release = b.pre_release

\* a plausible slip: two tagged versions of the same numbers compare Equal
VersionCmpNoTag(a, b) ==
    IF NumCmp(a.major, b.major) # 0 THEN NumCmp(a.major, b.major)
    ELSE IF NumCmp(a.minor, b.minor) # 0 THEN NumCmp(a.minor, b.minor)
    ELSE IF NumCmp(a.patch, b.patch) # 0 THEN NumCmp(a.patch, b.patch)
    ELSE IF IsNone(a.pre_release) /\ IsSome(b.pre_release) THEN 1
    ELSE IF IsSome(a.pre_release) /\ IsNone(b.pre_release) THEN -1
    ELSE 0

\* a plausible slip: the tagged version outranks the untagged one
VersionCmpTagFirst(a, b) ==
    IF NumCmp(a.major, b.major) # 0 THEN NumCmp(a.major, b.major)
    ELSE IF NumCmp(a.minor, b.minor) # 0 THEN NumCmp(a.minor, b.minor)
    ELSE IF NumCmp(a.patch, b.patch) # 0 THEN NumCmp(a.patch, b.patch)
    ELSE IF IsNone(a.pre_release) /\ IsSome(b.pre_release) THEN -1
    ELSE IF IsSome(a.pre_release) /\ IsNone(b.pre_release) THEN 1
    ELSE IF IsSome(a.pre_release) /\ IsSome(b.pre_release)
         THEN StrCmp(Unwrap(a.pre_release), Unwrap(b.pre_release))
    ELSE 0

\* impl Ord for Version : -1 (Less), 0 (Equal), 1 (Greater)
VersionCmp(a, b) ==
    IF NumCmp(a.major, b.major) # 0 THEN NumCmp(a.major, b.major)
    ELSE IF NumCmp(a.minor, b.minor) # 0 THEN NumCmp(a.minor, b.minor)
    ELSE IF NumCmp(a.patch, b.patch) # 0 THEN NumCmp(a.patch, b.patch)
    ELSE IF IsNone(a.pre_release) /\ IsSome(b.pre_release) THEN 1
    ELSE IF IsSome(a.pre_release) /\ IsNone(b.pre_release) THEN -1
    ELSE IF IsSome(a.pre_release) /\ IsSome(b.pre_release)
         THEN StrCmp(Unwrap(a.pre_release), Unwrap(b.pre_release))
    ELSE 0

\* the comparison operators PartialOrd derives from cmp
VLt(a, b) == VersionCmp(a, b) = -1
VGt(a, b) == VersionCmp(a, b) = 1
VLe(a, b) == VersionCmp(a, b) # 1
VGe(a, b) == VersionCmp(a, b) # -1

\* the pre-release markers of parse_prerelease, in the order they are tried
PrePatterns ==
    << <<"d","e","v">>, <<"p","o","s","t">>, <<"a","l","p","h","a">>,
       <<"b","e","t","a">>, <<"r","c">>, <<"a">>, <<"b">>, <<"c">>, <<"-">> >>

\* parse_prerelease : (base, Option<tag>); i is the pattern tried next
RECURSIVE ParsePrereleaseFrom(_, _)
ParsePrereleaseFrom(s, i) ==
    IF i > Len(PrePatterns) THEN << s, None >>
    ELSE LET idx == Find(ToLowercase(s), PrePatterns[i])
         IN  IF IsSome(idx) /\ Unwrap(idx) > 0
             THEN << Slice(s, 0, Unwrap(idx)), Some(Slice(s, Unwrap(idx), Len(s))) >>
             ELSE ParsePrereleaseFrom(s, i + 1)

parse_prerelease(s) == ParsePrereleaseFrom(s, 1)

\* parts.get(i).and_then(|s| s.parse().ok()) with a 0-based i
PartNum(parts, i) == IF i + 1 <= Len(parts) THEN ParseU64(parts[i + 1]) ELSE None

\* a plausible slip: the minor component is required like the major one
VersionFromStrStrict(str) ==
    LET s == Trim(str)
        plus == Find(s, <<"+">>)
        version_part == IF IsSome(plus) THEN Slice(s, 0, Unwrap(plus)) ELSE s
        local == IF IsSome(plus)
                 THEN Some(Slice(s, Unwrap(plus) + 1, Len(s))) ELSE None
        pp == parse_prerelease(version_part)
        parts == Split(pp[1], ".")
        major == PartNum(parts, 0)
        minor == PartNum(parts, 1)
        patch == PartNum(parts, 2)
    IN  IF IsNone(major) \/ IsNone(minor)
        THEN [ok |-> FALSE, err |-> "InvalidVersion"]
        ELSE [ok |-> TRUE,
              val |-> MkVersion(Unwrap(major), Unwrap(minor),
                                IF IsSome(patch) THEN Unwrap(patch) ELSE 0,
                                pp[2], local, s)]

\* <Version as FromStr>::from_str : [ok, val] or [ok, err]
VersionFromStr(str) ==
    LET s == Trim(str)
        plus == Find(s, <<"+">>)
        version_part == IF IsSome(plus) THEN Slice(s, 0, Unwrap(plus)) ELSE s
        local == IF IsSome(plus)
                 THEN Some(Slice(s, Unwrap(plus) + 1, Len(s))) ELSE None
        pp == parse_prerelease(version_part)
        parts == Split(pp[1], ".")
        major == PartNum(parts, 0)
        minor == PartNum(parts, 1)
        patch == PartNum(parts, 2)
    IN  IF IsNone(major)
        THEN [ok |-> FALSE, err |-> "InvalidVersion"]
        ELSE [ok |-> TRUE,
              val |-> MkVersion(Unwrap(major),
                                IF IsSome(minor) THEN Unwrap(minor) ELSE 0,
                                IF IsSome(patch) THEN Unwrap(patch) ELSE 0,
                                pp[2], local, s)]

\* the versions a list of literals parses to; a literal that is no
\* version is skipped (`if let Ok(version) = Version::from_str(..)`)
ParseAll(literals) ==
    {VersionFromStr(l).val : l \in {x \in literals : VersionFromStr(x).ok}}

(***************************************************************************)
(* VersionSpec (core/src/version.rs).                                      *)
(***************************************************************************)
\* enum VersionSpec : the variants carrying one Version
Single(kind, v) == [kind |-> kind, v |-> v]
Pinned(v) == Single("Pinned", v)
Minimum(v) == Single("Minimum", v)
Maximum(v) == Single("Maximum", v)
GreaterThan(v) == Single("GreaterThan", v)
LessThan(v) == Single("LessThan", v)
Caret(v) == Single("Caret", v)
Tilde(v) == Single("Tilde", v)
Compatible(v) == Single("Compatible", v)
NotEqual(v) == Single("NotEqual", v)
Range(min, max) == [kind |-> "Range", min |-> min, max |-> max]
Wildcard(prefix, pattern) == [kind |-> "Wildcard", prefix |-> prefix, pattern |-> pattern]
Complex(raw) == [kind |-> "Complex", raw |-> raw]
AnySpec == [kind |-> "Any"]

SingleKinds ==
    {"Pinned", "Minimum", "Maximum", "GreaterThan", "LessThan",
     "Caret", "Tilde", "Compatible", "NotEqual"}

\* a plausible variant: an operand that is no version falls back to Complex
ParseOperandLenient(kind, version_str) ==
    LET r == VersionFromStr(version_str)
    IN  IF r.ok THEN [ok |-> TRUE, val |-> Single(kind, r.val)]
        ELSE [ok |-> TRUE, val |-> Complex(version_str)]

\* the `Version::from_str(version_str)?` of one operator branch of parse
ParseOperand(kind, version_str) ==
    LET r == VersionFromStr(version_str)
    IN  IF r.ok THEN [ok |-> TRUE, val |-> Single(kind, r.val)]
        ELSE [ok |-> FALSE, err |-> r.err]

\* a plausible variant: a range with a bound that is no version falls back
\* to Complex
ParseRangeLenient(s) ==
    LET parts == Split(s, ",")
        min_str == StripPrefix(Trim(parts[1]), <<">", "=">>)
        max_str == StripPrefix(Trim(parts[2]), <<"<">>)
        min == VersionFromStr(Unwrap(min_str))
        max == VersionFromStr(Unwrap(max_str))
    IN  IF Len(parts) = 2 /\ IsSome(min_str) /\ IsSome(max_str)
           /\ min.ok /\ max.ok
        THEN [ok |-> TRUE, val |-> Range(min.val, max.val)]
        ELSE [ok |-> TRUE, val |-> Complex(s)]

\* the `s.contains(',')` branch of parse
ParseRange(s) ==
    LET parts == Split(s, ",")
        min_str == StripPrefix(Trim(parts[1]), <<">", "=">>)
        max_str == StripPrefix(Trim(parts[2]), <<"<">>)
        min == VersionFromStr(Unwrap(min_str))
        max == VersionFromStr(Unwrap(max_str))
    IN  IF Len(parts) = 2 /\ IsSome(min_str) /\ IsSome(max_str)
        THEN IF ~min.ok THEN [ok |-> FALSE, err |-> min.err]
             ELSE IF ~max.ok THEN [ok |-> FALSE, err |-> max.err]
             ELSE [ok |-> TRUE, val |-> Range(min.val, max.val)]
        ELSE [ok |-> TRUE, val |-> Complex(s)]

\* a plausible slip: the one-character operators are tried first
SimpleOperatorsShortFirst ==
    << << <<">">>, "GreaterThan" >>, << <<"<">>, "LessThan" >>,
       << <<"=", "=">>, "Pinned" >>, << <<">", "=">>, "Minimum" >>,
       << <<"<", "=">>, "Maximum" >>, << <<"!", "=">>, "NotEqual" >> >>

\* the operators tried after the range branch, in order
SimpleOperators ==
    << << <<"=", "=">>, "Pinned" >>, << <<">", "=">>, "Minimum" >>,
       << <<"<", "=">>, "Maximum" >>, << <<"!", "=">>, "NotEqual" >>,
       << <<">">>, "GreaterThan" >>, << <<"<">>, "LessThan" >> >>

RECURSIVE ParseSimpleFrom(_, _)
ParseSimpleFrom(s, i) ==
    IF i > Len(SimpleOperators)
    THEN LET r == VersionFromStr(s)
         IN  IF r.ok THEN [ok |-> TRUE, val |-> Pinned(r.val)]
             ELSE [ok |-> TRUE, val |-> Complex(s)]
    ELSE LET rest == StripPrefix(s, SimpleOperators[i][1])
         IN  IF IsSome(rest) THEN ParseOperand(SimpleOperators[i][2], Unwrap(rest))
             ELSE ParseSimpleFrom(s, i + 1)

\* VersionSpec::parse : [ok, val] or [ok, err]
VersionSpecParse(str) ==
    LET s == Trim(str)
    IN  IF s = << >> \/ s = <<"*">> THEN [ok |-> TRUE, val |-> AnySpec]
        ELSE IF StartsWith(s, <<"^">>)
             THEN ParseOperand("Caret", Unwrap(StripPrefix(s, <<"^">>)))
        ELSE IF StartsWith(s, <<"~", "=">>)
             THEN ParseOperand("Compatible", Unwrap(StripPrefix(s, <<"~", "=">>)))
        ELSE IF StartsWith(s, <<"~">>)
             THEN ParseOperand("Tilde", Unwrap(StripPrefix(s, <<"~">>)))
        ELSE IF Contains(s, <<"*">>)
             THEN LET body == IF StartsWith(s, <<"=", "=">>)
                              THEN Unwrap(StripPrefix(s, <<"=", "=">>)) ELSE s
                  IN  [ok |-> TRUE,
                       val |-> Wildcard(Remove(Remove(body, <<".", "*">>), <<"*">>), s)]
        ELSE IF Contains(s, <<",">>) THEN ParseRange(s)
        ELSE ParseSimpleFrom(s, 1)

\* a plausible slip: the caret rule without the 0.0.z exact-pin case
CaretSatisfiesNoPin(v, version) ==
    IF VLt(version, v) THEN FALSE
    ELSE IF v.major = 0
         THEN version.major = 0 /\ version.minor = v.minor
         ELSE version.major = v.major

\* the VersionSpec::Caret arm of satisfies
CaretSatisfies(v, version) ==
    IF VLt(version, v) THEN FALSE
    ELSE IF v.major = 0
         THEN IF v.minor = 0
              THEN version.major = 0 /\ version.minor = 0
                   /\ version.patch = v.patch
              ELSE version.major = 0 /\ version.minor = v.minor
         ELSE version.major = v.major

\* a plausible slip: a wildcard is taken for a constraint that cannot be
\* evaluated and admits every version
satisfies_wildcard_unchecked(spec, version) ==
    CASE spec.kind = "Any" -> TRUE
      [] spec.kind = "Pinned" -> VersionEq(version, spec.v)
      [] spec.kind = "Minimum" -> VGe(version, spec.v)
      [] spec.kind = "Maximum" -> VLe(version, spec.v)
      [] spec.kind = "GreaterThan" -> VGt(version, spec.v)
      [] spec.kind = "LessThan" -> VLt(version, spec.v)
      [] spec.kind = "Range" -> VGe(version, spec.min) /\ VLt(version, spec.max)
      [] spec.kind = "Caret" -> CaretSatisfies(spec.v, version)
      [] spec.kind = "Tilde" ->
            VGe(version, spec.v) /\ version.major = spec.v.major
            /\ version.minor = spec.v.minor
      [] spec.kind = "Compatible" ->
            VGe(version, spec.v) /\ version.major = spec.v.major
            /\ version.minor = spec.v.minor
      [] spec.kind = "Wildcard" -> TRUE
      [] spec.kind = "NotEqual" -> ~VersionEq(version, spec.v)
      [] spec.kind = "Complex" -> TRUE

\* a plausible slip: the upper bound of a range is inclusive
satisfies_range_inclusive(spec, version) ==
    CASE spec.kind = "Any" -> TRUE
      [] spec.kind = "Pinned" -> VersionEq(version, spec.v)
      [] spec.kind = "Minimum" -> VGe(version, spec.v)
      [] spec.kind = "Maximum" -> VLe(version, spec.v)
      [] spec.kind = "GreaterThan" -> VGt(version, spec.v)
      [] spec.kind = "LessThan" -> VLt(version, spec.v)
      [] spec.kind = "Range" -> VGe(version, spec.min) /\ VLe(version, spec.max)
      [] spec.kind = "Caret" -> CaretSatisfies(spec.v, version)
      [] spec.kind = "Tilde" ->
            VGe(version, spec.v) /\ version.major = spec.v.major
            /\ version.minor = spec.v.minor
      [] spec.kind = "Compatible" ->
            VGe(version, spec.v) /\ version.major = spec.v.major
            /\ version.minor = spec.v.minor
      [] spec.kind = "Wildcard" -> StartsWith(version.original, spec.prefix)
      [] spec.kind = "NotEqual" -> ~VersionEq(version, spec.v)
      [] spec.kind = "Complex" -> TRUE

\* VersionSpec::satisfies
satisfies(spec, version) ==
    CASE spec.kind = "Any" -> TRUE
      [] spec.kind = "Pinned" -> VersionEq(version, spec.v)
      [] spec.kind = "Minimum" -> VGe(version, spec.v)
      [] spec.kind = "Maximum" -> VLe(version, spec.v)
      [] spec.kind = "GreaterThan" -> VGt(version, spec.v)
      [] spec.kind = "LessThan" -> VLt(version, spec.v)
      [] spec.kind = "Range" -> VGe(version, spec.min) /\ VLt(version, spec.max)
      [] spec.kind = "Caret" -> CaretSatisfies(spec.v, version)
      [] spec.kind = "Tilde" ->
            VGe(version, spec.v) /\ version.major = spec.v.major
            /\ version.minor = spec.v.minor
      [] spec.kind = "Compatible" ->
            VGe(version, spec.v) /\ version.major = spec.v.major
            /\ version.minor = spec.v.minor
      [] spec.kind = "Wildcard" -> StartsWith(version.original, spec.prefix)
      [] spec.kind = "NotEqual" -> ~VersionEq(version, spec.v)
      [] spec.kind = "Complex" -> TRUE

\* VersionSpec::base_version : Option<&Version>
base_version(spec) ==
    IF spec.kind \in SingleKinds THEN Some(spec.v)
    ELSE IF spec.kind = "Range" THEN Some(spec.min)
    ELSE None

\* a plausible slip: the major of a range is taken from its lower bound
max_major_of_min(spec) ==
    IF spec.kind = "Range" THEN Some(spec.min.major)
    ELSE IF spec.kind \in SingleKinds THEN Some(spec.v.major)
    ELSE IF spec.kind = "Wildcard" THEN ParseU64(Split(spec.prefix, ".")[1])
    ELSE None

\* VersionSpec::max_major : Option<u64>
max_major(spec) ==
    IF spec.kind = "Range" THEN Some(spec.max.major)
    ELSE IF spec.kind \in SingleKinds THEN Some(spec.v.major)
    ELSE IF spec.kind = "Wildcard" THEN ParseU64(Split(spec.prefix, ".")[1])
    ELSE None

\* u64::MAX.  The model keeps u64 at the width of the checker's integers
\* (31 bits), so that the largest major a literal can carry is a value of
\* the model.
U64Max == 2147483647

\* `n + 1` on u64 without overflow checks (a release build): it wraps
WrappingInc(n) == IF n = U64Max THEN 0 ELSE n + 1

\* `new_version.major + 1` of with_version overflows: a build with overflow
\* checks (a debug build) panics there
with_version_overflows(spec, new_version) ==
    /\ spec.kind = "Range"
    /\ VGe(new_version, spec.max)
    /\ new_version.major = U64Max

\* a plausible slip: a wildcard is retargeted to the exact version
with_version_pin_wildcard(spec, new_version) ==
    IF spec.kind \in SingleKinds THEN Single(spec.kind, new_version)
    ELSE IF spec.kind = "Range"
         THEN IF VGe(new_version, spec.max)
              THEN Range(new_version, VersionNew(WrappingInc(new_version.major), 0, 0))
              ELSE Range(new_version, spec.max)
    ELSE IF spec.kind = "Wildcard" THEN Pinned(new_version)
    ELSE spec

\* VersionSpec::with_version
with_version(spec, new_version) ==
    IF spec.kind \in SingleKinds THEN Single(spec.kind, new_version)
    ELSE IF spec.kind = "Range"
         THEN IF VGe(new_version, spec.max)
              THEN Range(new_version, VersionNew(WrappingInc(new_version.major), 0, 0))
              ELSE Range(new_version, spec.max)
    ELSE IF spec.kind = "Wildcard"
         THEN Wildcard(FmtU64(new_version.major) \o <<".">> \o FmtU64(new_version.minor),
                       spec.pattern)
    ELSE spec

(***************************************************************************)
(* Registry client (src/pypi.rs).                                          *)
(***************************************************************************)
\* Vec<Version>::sort() of the parsed releases: the map of releases is
\* iterated in an arbitrary order and the sort is stable, so equal versions
\* may come out in either order
SortedVecs(set) ==
    {q \in [1..Cardinality(set) -> set] :
        /\ \A i, j \in 1..Cardinality(set) : i # j => q[i] # q[j]
        /\ \A i, j \in 1..Cardinality(set) : i < j => VLe(q[i], q[j])}

\* .filter(|v| !v.is_prerelease()).collect()
RECURSIVE Stable(_)
Stable(vs) ==
    IF vs = << >> THEN << >>
    ELSE IF is_prerelease(Head(vs)) THEN Stable(Tail(vs))
    ELSE << Head(vs) >> \o Stable(Tail(vs))

\* Iterator::last
Last(vs) == IF vs = << >> THEN None ELSE Some(vs[Len(vs)])

\* a plausible slip: the pre-release filter is not applied to the list
PackageInfoOfUnfiltered(all_versions, include_prerelease) ==
    LET filtered_versions ==
            IF include_prerelease THEN all_versions ELSE Stable(all_versions)
    IN  IF all_versions = << >> \/ filtered_versions = << >>
        THEN [ok |-> FALSE, err |-> "no versions"]
        ELSE [ok |-> TRUE,
              val |-> [versions |-> all_versions,
                       latest |-> IF include_prerelease
                                  THEN Unwrap(Last(all_versions))
                                  ELSE Unwrap(Last(filtered_versions)),
                       latest_stable |-> Last(Stable(all_versions))]]

\* PyPiClient::get_package on the sorted releases : Result<PackageInfo>
PackageInfoOf(all_versions, include_prerelease) ==
    LET filtered_versions ==
            IF include_prerelease THEN all_versions ELSE Stable(all_versions)
    IN  IF all_versions = << >> \/ filtered_versions = << >>
        THEN [ok |-> FALSE, err |-> "no versions"]
        ELSE [ok |-> TRUE,
              val |-> [versions |-> filtered_versions,
                       latest |-> IF include_prerelease
                                  THEN Unwrap(Last(all_versions))
                                  ELSE Unwrap(Last(filtered_versions)),
                       latest_stable |-> Last(Stable(all_versions))]]

\* the PackageInfo values get_package can return for a set of release
\* literals (releases that do not parse are skipped)
get_package(releases, include_prerelease) ==
    {PackageInfoOf(q, include_prerelease).val :
        q \in {x \in SortedVecs(ParseAll(releases)) :
                  PackageInfoOf(x, include_prerelease).ok}}

\* Vec<Version>::sort() : a stable sort, equal versions keep their order
RECURSIVE InsertSorted(_, _)
InsertSorted(sorted, v) ==
    IF sorted = << >> THEN << v >>
    ELSE IF VGt(Head(sorted), v) THEN << v >> \o sorted
    ELSE << Head(sorted) >> \o InsertSorted(Tail(sorted), v)

RECURSIVE SortVec(_)
SortVec(vs) ==
    IF vs = << >> THEN << >>
    ELSE InsertSorted(SortVec(SubSeq(vs, 1, Len(vs) - 1)), vs[Len(vs)])

\* the loop over the entries of a registry answer, in iteration order: a
\* yanked entry (when the client looks at it) and an entry that is no
\* version are skipped
RECURSIVE ParseEntries(_, _)
ParseEntries(entries, skip_yanked) ==
    IF entries = << >> THEN << >>
    ELSE LET e == Head(entries)
             r == VersionFromStr(e.num)
         IN  (IF (skip_yanked /\ e.yanked) \/ ~r.ok THEN << >> ELSE << r.val >>)
             \o ParseEntries(Tail(entries), skip_yanked)

\* PyPiClient::get_package on a decoded answer : Result<PackageInfo>
PyPiGetPackage(entries, include_prerelease) ==
    PackageInfoOf(SortVec(ParseEntries(entries, TRUE)), include_prerelease)

\* CratesIoClient::get_package on a decoded answer : Result<PackageInfo>
CratesIoGetPackage(entries, include_prerelease) ==
    PackageInfoOf(SortVec(ParseEntries(entries, TRUE)), include_prerelease)

\* NpmClient::get_package on a decoded answer : Result<PackageInfo>
NpmGetPackage(entries, latest_tag, include_prerelease) ==
    LET parsed_keys == ParseEntries(entries, FALSE)
        versions == SortVec(IF include_prerelease THEN parsed_keys
                            ELSE Stable(parsed_keys))
        tagged == IF IsSome(latest_tag) /\ VersionFromStr(Unwrap(latest_tag)).ok
                  THEN Some(VersionFromStr(Unwrap(latest_tag)).val) ELSE None
    IN  [ok |-> TRUE,
         val |-> [versions |-> versions,
                  latest |-> IF IsSome(tagged) THEN Unwrap(tagged)
                             ELSE IF IsSome(Last(versions)) THEN Unwrap(Last(versions))
                             ELSE VersionNew(0, 0, 0),
                  latest_stable |-> Last(Stable(versions))]]

(***************************************************************************)
(* Resolver (src/resolver.rs).                                             *)
(***************************************************************************)
\* Iterator::max over the elements of vs at the positions idx that passed
\* the filter : Option<Version> (the last of several equal maxima)
MaxBy(vs, idx) ==
        IF idx = {} THEN None
        ELSE Some(vs[CHOOSE i \in idx :
                        \A j \in idx : \/ VLt(vs[j], vs[i])
                                       \/ VersionEq(vs[j], vs[i]) /\ j <= i])

\* u64::max
MaxU64(x, y) == IF x >= y THEN x ELSE y

\* the target major of an unbounded spec (Minimum, GreaterThan)
TargetMajor(base, installed) ==
    IF IsSome(installed) THEN MaxU64(base.major, Unwrap(installed).major)
    ELSE base.major

\* DependencyResolver::calculate_latest_same_major
calculate_latest_same_major(spec, available_versions, installed) ==
    IF IsNone(base_version(spec)) THEN None
    ELSE LET base == Unwrap(base_version(spec))
             target_major ==
                 IF spec.kind \in {"Minimum", "GreaterThan"}
                 THEN TargetMajor(base, installed) ELSE base.major
             keep(v) == v.major = target_major
         IN  MaxBy(available_versions,
                   {i \in 1..Len(available_versions) : keep(available_versions[i])})

\* a plausible slip: the target major of an unbounded spec ignores the
\* installed version
calculate_in_range_base_major(spec, available_versions, installed) ==
    LET keep(v) ==
            /\ satisfies(spec, v)
            /\ IF spec.kind \in {"Minimum", "GreaterThan"}
               THEN v.major = spec.v.major
               ELSE IF IsSome(max_major(spec))
                    THEN v.major <= Unwrap(max_major(spec)) ELSE TRUE
    IN  MaxBy(available_versions,
                   {i \in 1..Len(available_versions) : keep(available_versions[i])})

\* DependencyResolver::calculate_in_range
calculate_in_range(spec, available_versions, installed) ==
    LET keep(v) ==
            /\ satisfies(spec, v)
            /\ IF spec.kind \in {"Minimum", "GreaterThan"}
               THEN v.major = TargetMajor(spec.v, installed)
               ELSE IF IsSome(max_major(spec))
                    THEN v.major <= Unwrap(max_major(spec)) ELSE TRUE
    IN  MaxBy(available_versions,
                   {i \in 1..Len(available_versions) : keep(available_versions[i])})

\* a plausible slip: the minor flag moves a pin to the absolute latest
UpdatePinnedMinorLatest(args, current_version, latest, latest_same_major) ==
    IF args.force_latest \/ args.minor
    THEN IF ~VersionEq(current_version, latest) THEN Some(Pinned(latest)) ELSE None
    ELSE None

\* the pinned branch of calculate_update_to
UpdatePinned(args, current_version, latest, latest_same_major) ==
    IF args.force_latest
    THEN IF ~VersionEq(current_version, latest) THEN Some(Pinned(latest)) ELSE None
    ELSE IF args.minor
         THEN IF IsSome(latest_same_major)
                 /\ ~VersionEq(current_version, Unwrap(latest_same_major))
              THEN Some(Pinned(Unwrap(latest_same_major)))
              ELSE None
         ELSE None

\* a plausible variant: a spec without a base version is never rewritten
UpdateRangedKnownBase(args, current_spec, in_range, latest, installed) ==
    IF ~args.force_latest /\ IsNone(in_range) THEN None
    ELSE LET target_version == IF args.force_latest THEN latest ELSE Unwrap(in_range)
             needs_update ==
                 IF IsSome(base_version(current_spec))
                 THEN ~VersionEq(Unwrap(base_version(current_spec)), target_version)
                 ELSE FALSE
         IN  IF ~needs_update THEN None
             ELSE IF IsSome(installed) /\ VLt(target_version, Unwrap(installed))
                  THEN None
                  ELSE Some(with_version(current_spec, target_version))

\* a plausible slip: the guard against a downgrade from the installed
\* version is missing
UpdateRangedNoGuard(args, current_spec, in_range, latest, installed) ==
    IF ~args.force_latest /\ IsNone(in_range) THEN None
    ELSE LET target_version == IF args.force_latest THEN latest ELSE Unwrap(in_range)
             needs_update ==
                 IF IsSome(base_version(current_spec))
                 THEN ~VersionEq(Unwrap(base_version(current_spec)), target_version)
                 ELSE TRUE
         IN  IF ~needs_update THEN None
             ELSE Some(with_version(current_spec, target_version))

\* a plausible variant: a rewrite only when the target is newer than the
\* current version (the installed one, else the base of the spec)
UpdateRangedNewerOnly(args, current_spec, in_range, latest, installed) ==
    IF ~args.force_latest /\ IsNone(in_range) THEN None
    ELSE LET target_version == IF args.force_latest THEN latest ELSE Unwrap(in_range)
             current == IF IsSome(installed) THEN installed
                        ELSE base_version(current_spec)
         IN  IF IsSome(current) /\ ~VGt(target_version, Unwrap(current)) THEN None
             ELSE Some(with_version(current_spec, target_version))

\* a plausible slip: the force flag still prefers the in-range version
UpdateRangedForceInRange(args, current_spec, in_range, latest, installed) ==
    IF ~args.force_latest /\ IsNone(in_range) THEN None
    ELSE LET target_version == IF IsSome(in_range) THEN Unwrap(in_range) ELSE latest
             needs_update ==
                 IF IsSome(base_version(current_spec))
                 THEN ~VersionEq(Unwrap(base_version(current_spec)), target_version)
                 ELSE TRUE
         IN  IF ~needs_update THEN None
             ELSE IF IsSome(installed) /\ VLt(target_version, Unwrap(installed))
                  THEN None
                  ELSE Some(with_version(current_spec, target_version))

\* a plausible slip: the spec is rewritten even when its base version is
\* the target already
UpdateRangedAlways(args, current_spec, in_range, latest, installed) ==
    IF ~args.force_latest /\ IsNone(in_range) THEN None
    ELSE LET target_version == IF args.force_latest THEN latest ELSE Unwrap(in_range)
         IN  IF IsSome(installed) /\ VLt(target_version, Unwrap(installed))
             THEN None
             ELSE Some(with_version(current_spec, target_version))

\* the non-pinned branch of calculate_update_to
UpdateRanged(args, current_spec, in_range, latest, installed) ==
    IF ~args.force_latest /\ IsNone(in_range) THEN None
    ELSE LET target_version == IF args.force_latest THEN latest ELSE Unwrap(in_range)
             needs_update ==
                 IF IsSome(base_version(current_spec))
                 THEN ~VersionEq(Unwrap(base_version(current_spec)), target_version)
                 ELSE TRUE
         IN  IF ~needs_update THEN None
             ELSE IF IsSome(installed) /\ VLt(target_version, Unwrap(installed))
                  THEN None
                  ELSE Some(with_version(current_spec, target_version))

\* DependencyResolver::calculate_update_to
calculate_update_to(args, current_spec, in_range, latest, latest_same_major, installed) ==
    IF current_spec.kind = "Pinned"
    THEN UpdatePinned(args, current_spec.v, latest, latest_same_major)
    ELSE UpdateRanged(args, current_spec, in_range, latest, installed)

\* DependencyResolver::resolve : DependencyCheck
resolve(args, dependency, package_info, installed) ==
    LET latest == package_info.latest
        in_range == calculate_in_range(dependency.version_spec,
                                       package_info.versions, installed)
        latest_same_major ==
            calculate_latest_same_major(dependency.version_spec,
                                        package_info.versions, installed)
        update_to == calculate_update_to(args, dependency.version_spec, in_range,
                                         latest, latest_same_major, installed)
    IN  [dependency |-> dependency, installed |-> installed,
         in_range |-> in_range, latest |-> latest, update_to |-> update_to]

\* DependencyCheck::has_update
has_update(check) == IsSome(check.update_to)

\* a plausible slip: the minor component is looked at before the major one
update_severity_minor_first(check) ==
    LET current == IF IsSome(check.installed) THEN check.installed
                   ELSE base_version(check.dependency.version_spec)
        target == IF IsSome(check.update_to)
                  THEN base_version(Unwrap(check.update_to)) ELSE None
    IN  IF IsNone(current) \/ IsNone(target) THEN None
        ELSE IF Unwrap(target).minor > Unwrap(current).minor THEN Some("Minor")
        ELSE IF Unwrap(target).major > Unwrap(current).major THEN Some("Major")
        ELSE IF Unwrap(target).patch > Unwrap(current).patch THEN Some("Patch")
        ELSE None

\* a plausible slip: whatever is left when neither major nor minor grew is
\* taken for a patch update
update_severity_patch_default(check) ==
    LET current == IF IsSome(check.installed) THEN check.installed
                   ELSE base_version(check.dependency.version_spec)
        target == IF IsSome(check.update_to)
                  THEN base_version(Unwrap(check.update_to)) ELSE None
    IN  IF IsNone(current) \/ IsNone(target) THEN None
        ELSE IF Unwrap(target).major > Unwrap(current).major THEN Some("Major")
        ELSE IF Unwrap(target).minor > Unwrap(current).minor THEN Some("Minor")
        ELSE Some("Patch")

\* DependencyCheck::update_severity : Option<UpdateSeverity>
update_severity(check) ==
    LET current == IF IsSome(check.installed) THEN check.installed
                   ELSE base_version(check.dependency.version_spec)
        target == IF IsSome(check.update_to)
                  THEN base_version(Unwrap(check.update_to)) ELSE None
    IN  IF IsNone(current) \/ IsNone(target) THEN None
        ELSE IF Unwrap(target).major > Unwrap(current).major THEN Some("Major")
        ELSE IF Unwrap(target).minor > Unwrap(current).minor THEN Some("Minor")
        ELSE IF Unwrap(target).patch > Unwrap(current).patch THEN Some("Patch")
        ELSE None

(***************************************************************************)
(* Global mode (run_global_mode of src/main.rs, pcu/src/global.rs).        *)
(***************************************************************************)
\* a plausible slip: the minor flag is not looked at
GlobalTargetLatest(args, info, installed_version) == info.latest

\* `let target = if args.minor {..} else {..}` of run_global_mode
GlobalTarget(args, info, installed_version) ==
    IF args.minor
    THEN LET same_major == MaxBy(info.versions,
                 {i \in 1..Len(info.versions) :
                     info.versions[i].major = installed_version.major})
         IN  IF IsSome(same_major) THEN Unwrap(same_major) ELSE info.latest
    ELSE info.latest

\* the GlobalCheck run_global_mode pushes for a package the registry
\* answered for
GlobalCheckOf(args, package, info) ==
    LET target == GlobalTarget(args, info, package.installed_version)
    IN  [package |-> package, latest |-> target,
         has_update |-> VGt(target, package.installed_version)]

\* GlobalCheck::update_severity : Option<UpdateSeverity>
global_update_severity(gc) ==
    IF ~gc.has_update THEN None
    ELSE LET current == gc.package.installed_version
             target == gc.latest
         IN  IF target.major > current.major THEN Some("Major")
             ELSE IF target.minor > current.minor THEN Some("Minor")
             ELSE IF target.patch > current.patch THEN Some("Patch")
             ELSE None

(***************************************************************************)
(* File updater (src/updater.rs, ccu/src/updater.rs) on the DependencyCheck *)
(* of core/src/types.rs.                                                   *)
(***************************************************************************)
\* impl Display for Version
FmtVersion(v) == v.original

\* impl Display for VersionSpec
FmtSpec(spec) ==
    CASE spec.kind = "Any" -> <<"*">>
      [] spec.kind = "Pinned" -> <<"=", "=">> \o FmtVersion(spec.v)
      [] spec.kind = "Minimum" -> <<">", "=">> \o FmtVersion(spec.v)
      [] spec.kind = "Maximum" -> <<"<", "=">> \o FmtVersion(spec.v)
      [] spec.kind = "GreaterThan" -> <<">">> \o FmtVersion(spec.v)
      [] spec.kind = "LessThan" -> <<"<">> \o FmtVersion(spec.v)
      [] spec.kind = "Range" ->
            <<">", "=">> \o FmtVersion(spec.min) \o <<",", "<">> \o FmtVersion(spec.max)
      [] spec.kind = "Caret" -> <<"^">> \o FmtVersion(spec.v)
      [] spec.kind = "Tilde" -> <<"~">> \o FmtVersion(spec.v)
      [] spec.kind = "Compatible" -> <<"~", "=">> \o FmtVersion(spec.v)
      [] spec.kind = "Wildcard" -> <<"=", "=">> \o spec.prefix \o <<".", "*">>
      [] spec.kind = "NotEqual" -> <<"!", "=">> \o FmtVersion(spec.v)
      [] spec.kind = "Complex" -> spec.raw

\* VersionSpec::version_string : Option<String>
version_string(spec) ==
    IF spec.kind \in SingleKinds THEN Some(FmtVersion(spec.v))
    ELSE IF spec.kind = "Range" THEN Some(FmtVersion(spec.min))
    ELSE IF spec.kind = "Wildcard" THEN Some(spec.prefix \o <<".", "*">>)
    ELSE IF spec.kind = "Complex" THEN Some(spec.raw)
    ELSE None

\* the string an updater writes for a spec: to_string() in the Python
\* tool, version_string() (else to_string()) in the Cargo tool
NewVersion(tool, spec) ==
    IF tool = "ccu" /\ IsSome(version_string(spec))
    THEN Unwrap(version_string(spec)) ELSE FmtSpec(spec)

\* a plausible slip: a minor update passes the filter without the flag
SelectSpecMinorAlways(ck, include_minor_, force_) ==
    IF force_ THEN ck.force_spec
    ELSE IF ck.severity = Some("Patch") THEN ck.target_spec
    ELSE IF ck.severity = Some("Minor") THEN ck.target_spec
    ELSE None

\* the `let version_spec = if force {..} else {match check.severity ..}` of
\* apply_updates : Option<&VersionSpec>
SelectSpec(ck, include_minor_, force_) ==
    IF force_ THEN ck.force_spec
    ELSE IF ck.severity = Some("Patch") THEN ck.target_spec
    ELSE IF ck.severity = Some("Minor") /\ include_minor_ THEN ck.target_spec
    ELSE None

\* file_updates after the first loop of apply_updates: for each file the
\* (position of the check, new version string) pairs pushed for it
FileUpdates(tool, cks, include_minor_, force_) ==
    LET picked == {i \in 1..Len(cks) : IsSome(SelectSpec(cks[i], include_minor_, force_))}
        files == {cks[i].dependency.source_file : i \in picked}
    IN  [f \in files |->
            {<< i, NewVersion(tool, Unwrap(SelectSpec(cks[i], include_minor_, force_))) >> :
                i \in {j \in picked : cks[j].dependency.source_file = f}}]

\* FileUpdater::apply_updates : the results it can return.  The map of
\* file updates is walked in an arbitrary order and the first update_file
\* that fails ends the call, so the files written before it vary.
apply_updates(tool, cks, include_minor_, force_, failing) ==
    LET file_updates == FileUpdates(tool, cks, include_minor_, force_)
        files == DOMAIN file_updates
    IN  IF files \cap failing = {}
        THEN {[ok |-> TRUE, modified_files |-> files,
               file_updates |-> file_updates, written |-> files]}
        ELSE {[ok |-> FALSE, err |-> "Failed to update file",
               file_updates |-> file_updates, written |-> w] :
                 w \in SUBSET (files \ failing)}

(***************************************************************************)
(* Concurrent fetch (get_packages of src/pypi.rs and ccu/src/cratesio.rs). *)
(***************************************************************************)
\* Semaphore::new(10), Semaphore::new(5)
PyPiPermits == 10
CratesIoPermits == 5

Permits(client_) == IF client_ = "pypi" THEN PyPiPermits ELSE CratesIoPermits

\* a plausible slip: the semaphore is never consulted
CanAcquireUnlimited(available) == TRUE

\* Semaphore::acquire completes when a permit is left
CanAcquire(available) == available > 0

\* the text of the error of a failed get_package
FetchError(client_) ==
    IF client_ = "pypi" THEN <<"n","o","t"," ","f","o","u","n","d">>
    ELSE <<"n","o"," ","v","e","r","s","i","o","n","s">>

\* format!("{}: {}", name, msg)
FormatError(name, msg) == name \o <<":", " ">> \o msg

\* the join loop of get_packages over the tasks from..Len(names_): the
\* names inserted into `packages`
RECURSIVE JoinPackages(_, _, _)
JoinPackages(names_, outcome_, from) ==
    IF from > Len(names_) THEN {}
    ELSE (IF outcome_[from] = "ok" THEN {names_[from]} ELSE {})
         \cup JoinPackages(names_, outcome_, from + 1)

\* the join loop of get_packages: `formatted_errors`, in task order
RECURSIVE JoinErrors(_, _, _, _)
JoinErrors(client_, names_, outcome_, from) ==
    IF from > Len(names_) THEN << >>
    ELSE (IF outcome_[from] = "err"
          THEN << FormatError(names_[from], FetchError(client_)) >> ELSE << >>)
         \o JoinErrors(client_, names_, outcome_, from + 1)

\* a plausible slip: any failed fetch fails the whole call
ReturnsOkStrict(packages, formatted_errors) == formatted_errors = << >>

\* `!packages.is_empty() || formatted_errors.is_empty()`
ReturnsOk(packages, formatted_errors) ==
    packages # {} \/ formatted_errors = << >>

\* what get_packages returns once every task was awaited
GetPackagesResult(client_, names_, outcome_) ==
    LET packages == JoinPackages(names_, outcome_, 1)
        formatted_errors == JoinErrors(client_, names_, outcome_, 1)
    IN  IF ReturnsOk(packages, formatted_errors)
        THEN [ok |-> TRUE, packages |-> packages, errors |-> formatted_errors]
        ELSE [ok |-> FALSE, err |-> formatted_errors]

\* a plausible slip: the callback is handed the number of calls so far
\* plus one
CallbackCurrentCounted(index, recorded) == Len(recorded) + 1

\* the first argument of `callback(index + 1, total)`; index counts from 0
CallbackCurrent(index, recorded) == index + 1

\* the progress callbacks of the callers: main.rs sets the position of the
\* progress bar (kept here with the positions it had before), the test
\* counts the calls
RunCallback(callback_, recorded, current, total) ==
    IF callback_ = "set_position" THEN Append(recorded, current)
    ELSE recorded + 1

(***************************************************************************)
(* Inputs: version literals as registries and lock files supply them, and  *)
(* constraint strings as manifests supply them.                            *)
(***************************************************************************)
Str3(x, y, z) == FmtU64(x) \o <<".">> \o FmtU64(y) \o <<".">> \o FmtU64(z)
Str2(x, y) == FmtU64(x) \o <<".">> \o FmtU64(y)

\* "M.m.p" for the components within the bounds
FullLiterals ==
    {Str3(x, y, z) : x \in 0..MaxMajor, y \in 0..MaxMinor, z \in 0..MaxPatch}

\* "M.m"
ShortLiterals == {Str2(x, y) : x \in 0..MaxMajor, y \in 0..MaxMinor}

\* what may follow M.m.p: a PEP 440 tag, a semver tag, build metadata
Suffixes ==
    { << >>, <<"r","c","1">>, <<"b","1">>, <<"-","r","c","1">>, <<"+","x">> }

VersionLiterals == {l \o x : l \in FullLiterals, x \in Suffixes} \cup ShortLiterals

\* the literals of the examples of the documentation
ExampleLiterals ==
    { <<"1",".","2",".","3">>, <<"1",".","9",".","9">>, <<"2",".","0",".","0">>,
      <<"0",".","2",".","3">>, <<"0",".","2",".","9">>, <<"0",".","3",".","0">>,
      <<"0",".","0",".","3">>, <<"0",".","0",".","4">> }

\* the versions test_satisfies asks the range about, and a two-digit major
RangeExampleLiterals ==
    { <<"1",".","5",".","0">>, <<"0",".","9",".","0">>, <<"1","0",".","0",".","0">> }

\* the largest major a u64 holds
LargestLiterals == {FmtU64(U64Max) \o <<".","0",".","0">>}

\* a bare major, a minor whose decimals begin with those of another, and
\* a minor written with a leading zero
SeriesLiterals ==
    { <<"1">>, <<"1",".","1","0",".","0">>, <<"1",".","0","1",".","0">> }

ParsedVersions == ParseAll(VersionLiterals)
SeriesVersions == ParseAll(SeriesLiterals)
LargestVersions == ParseAll(LargestLiterals)
ExampleVersions == ParseAll(ExampleLiterals \cup RangeExampleLiterals)

\* the operators a constraint string may start with ("" is a bare version)
OperatorStrings ==
    { << >>, <<"=","=">>, <<">","=">>, <<"<","=">>, <<"!","=">>, <<">">>, <<"<">>,
      <<"^">>, <<"~">>, <<"~","=">> }

SingleSpecStrings == {o \o l : o \in OperatorStrings, l \in VersionLiterals}

RangeSpecStrings ==
    {<<">","=">> \o l \o <<",","<">> \o h : l \in FullLiterals, h \in FullLiterals}

WildcardSpecStrings ==
    {FmtU64(x) \o <<".","*">> : x \in 0..MaxMajor}
    \cup {l \o <<".","*">> : l \in ShortLiterals}
    \cup {<<"=","=">> \o l \o <<".","*">> : l \in ShortLiterals}

OtherSpecStrings ==
    { << >>, <<"*">>, <<"l","a","t","e","s","t">>,
      <<">","=","1",",","<","2",",","!","=","1",".","1">> }

SpecStrings ==
    SingleSpecStrings \cup RangeSpecStrings \cup WildcardSpecStrings
    \cup OtherSpecStrings \cup {<<"^">> \o l : l \in ExampleLiterals}

ParseAllSpecs(strings) ==
    {VersionSpecParse(x).val : x \in {y \in strings : VersionSpecParse(y).ok}}

Specs == ParseAllSpecs(SpecStrings)

\* release literals of a registry answer
RegistryLiterals ==
    {Str3(x, y, 0) : x \in 0..MaxMajor, y \in 0..MaxMinor}
    \cup { <<"1",".","1",".","0","r","c","1">>, <<"1",".","0">>,
           <<"1","0",".","0",".","0">> }

\* literals of a lock file and of the constraints of a manifest
ManifestLiterals == RegistryLiterals \ { <<"1","0",".","0",".","0">> }

ReleaseSets ==
    {S \in SUBSET RegistryLiterals : Cardinality(S) >= 1 /\ Cardinality(S) <= MaxAvail}

\* struct Args (path and update play no part in resolution)
ArgsSet == [minor : BOOLEAN, force_latest : BOOLEAN, pre_release : BOOLEAN]

\* the command line together with a PackageInfo the client built under it
ArgsAndPackages ==
    UNION {{<< ar, pk >> : pk \in get_package(S, ar.pre_release)} :
              ar \in ArgsSet, S \in ReleaseSets}

ResolverSpecStrings ==
    {o \o l : o \in OperatorStrings, l \in ManifestLiterals}
    \cup {<<">","=">> \o Str3(x, y, 0) \o <<",","<">> \o Str3(h, 0, 0) :
             x \in 0..MaxMajor, y \in 0..MaxMinor, h \in 0..MaxMajor}
    \cup WildcardSpecStrings \cup OtherSpecStrings

\* struct Dependency (the resolver reads version_spec only)
Dependencies ==
    {[name |-> "pkg", version_spec |-> sp] : sp \in ParseAllSpecs(ResolverSpecStrings)}

\* the installed version of the lock file, if any
InstalledVersions == {None} \cup {Some(v) : v \in ParseAll(ManifestLiterals)}

\* DependencyCheck values for update_severity, which reads neither
\* in_range nor latest
\* release candidates of one final release
CandidateLiterals ==
    { <<"1",".","0",".","0","r","c","1">>, <<"1",".","0",".","0","r","c","2">> }

SeverityVersions == ParseAll(FullLiterals \cup ExampleLiterals \cup CandidateLiterals)

SeveritySpecs == {Caret(v) : v \in SeverityVersions} \cup {AnySpec}

SeverityChecks ==
    {[dependency |-> [name |-> "pkg", version_spec |-> t[1]],
      installed |-> t[2], in_range |-> None, latest |-> VersionNew(0, 0, 0),
      update_to |-> t[3]] :
        t \in SeveritySpecs
               \X ({None} \cup {Some(v) : v \in SeverityVersions})
               \X ({None} \cup {Some(sp) : sp \in SeveritySpecs})}

(***************************************************************************)
(* State.                                                                  *)
(***************************************************************************)
VARIABLES
    a, b, c,        \* three versions handed to the comparison operators
    ord,            \* Option: what cmp and == returned for them
    spec, version,  \* a constraint and a version handed to VersionSpec
    res,            \* Option: the operation applied and what it returned
    input,          \* a string handed to a parser
    parsed,         \* Option: the parser applied and the Result it returned
    args,           \* the command line flags of the resolver
    dependency,     \* the dependency being resolved
    package_info,   \* what the registry client returned for it
    installed,      \* Option: its version in the lock file
    check,          \* Option: the DependencyCheck of resolve
    severity,       \* Option: what update_severity returned for check
    response,       \* the decoded answer of a registry
    include_prerelease, \* the pre-release policy of the registry client
    fetched,        \* Option: the client that ran and the Result it returned
    checks,         \* the DependencyChecks handed to the file updater
    include_minor,  \* its severity filter
    force,          \* its force flag
    unwritable,     \* the files whose update fails (I/O)
    applied,        \* Option: the updater that ran and what it returned
    client,         \* the registry client whose get_packages runs
    names,          \* the package names handed to it
    outcome,        \* what the registry answers to the request of each task
    callback,       \* the progress callback handed to it
    pc,             \* where each spawned task is
    permits,        \* the permits the semaphore has left
    progress,       \* what the progress callback has recorded
    returned        \* Option: the Result get_packages returned

ordVars == << a, b, c, ord >>
satVars == << spec, version, res >>
parseVars == << input, parsed >>
resVars == << args, dependency, package_info, installed, check, severity >>
regVars == << response, include_prerelease, fetched >>
updVars == << checks, include_minor, force, unwritable, applied >>
\* the variables of the specifications up to, and after, SpecReg
earlyVars == << ordVars, satVars, parseVars, resVars, regVars >>
netVars == << client, names, outcome, callback, pc, permits, progress, returned >>
laterVars == << updVars, netVars >>
vars == << earlyVars, laterVars >>

IdleOrd == a = None /\ b = None /\ c = None /\ ord = None
IdleSat == spec = None /\ version = None /\ res = None
IdleParse == input = None /\ parsed = None
IdleRes ==
    /\ args = None /\ dependency = None /\ package_info = None
    /\ installed = None /\ check = None /\ severity = None
IdleReg == response = None /\ include_prerelease = None /\ fetched = None
IdleUpd ==
    /\ checks = None /\ include_minor = None /\ force = None
    /\ unwritable = None /\ applied = None
IdleEarly ==
    /\ IdleOrd /\ IdleSat /\ IdleParse
    /\ IdleRes /\ IdleReg
IdleNet ==
    /\ client = None /\ names = None /\ outcome = None /\ callback = None
    /\ pc = None /\ permits = None /\ progress = None /\ returned = None
IdleLater == IdleUpd /\ IdleNet

(***************************************************************************)
(* SpecOrd: Version's Ord and PartialEq on every triple of versions.       *)
(***************************************************************************)
InitOrd ==
    /\ \E t \in ParsedVersions \X ParsedVersions \X ParsedVersions :
          a = t[1] /\ b = t[2] /\ c = t[3]
    /\ ord = None
    /\ IdleSat /\ IdleParse /\ IdleRes /\ IdleReg /\ IdleLater

\* a.cmp(&b), b.cmp(&c), a.cmp(&c), b.cmp(&a) and a == b
Compare ==
    /\ ord = None
    /\ ord' = Some([ab |-> VersionCmp(a, b), bc |-> VersionCmp(b, c),
                    ac |-> VersionCmp(a, c), ba |-> VersionCmp(b, a),
                    eq_ab |-> VersionEq(a, b)])
    /\ UNCHANGED << a, b, c, satVars, parseVars, resVars, regVars, laterVars >>

NextOrd == Compare

SpecOrd == InitOrd /\ [][NextOrd]_vars

(***************************************************************************)
(* SpecSat: the VersionSpec queries on every constraint and version.       *)
(***************************************************************************)
InitSat ==
    /\ \E t \in Specs \X (ParsedVersions \cup ExampleVersions \cup LargestVersions
                         \cup SeriesVersions) :
          spec = t[1] /\ version = t[2]
    /\ res = None
    /\ IdleOrd /\ IdleParse /\ IdleRes /\ IdleReg /\ IdleLater

\* spec.satisfies(&version)
Satisfies ==
    /\ res = None
    /\ res' = Some([op |-> "satisfies", val |-> satisfies(spec, version)])
    /\ UNCHANGED << spec, version, ordVars, parseVars, resVars, regVars, laterVars >>

\* spec.with_version(&version), as a build without overflow checks runs it
WithVersion ==
    /\ res = None
    /\ res' = Some([op |-> "with_version", val |-> with_version(spec, version)])
    /\ UNCHANGED << spec, version, ordVars, parseVars, resVars, regVars, laterVars >>

\* spec.with_version(&version) in a build with overflow checks, on the
\* input whose major cannot be incremented: "attempt to add with overflow"
WithVersionPanics ==
    /\ res = None
    /\ with_version_overflows(spec, version)
    /\ res' = Some([op |-> "panic", val |-> "with_version"])
    /\ UNCHANGED << spec, version, ordVars, parseVars, resVars, regVars, laterVars >>

\* spec.max_major()
MaxMajorOf ==
    /\ res = None
    /\ res' = Some([op |-> "max_major", val |-> max_major(spec)])
    /\ UNCHANGED << spec, version, ordVars, parseVars, resVars, regVars, laterVars >>

NextSat == Satisfies \/ WithVersion \/ WithVersionPanics \/ MaxMajorOf

SpecSat == InitSat /\ [][NextSat]_vars

(***************************************************************************)
(* SpecParse: the two parsers on manifest strings and free-form strings.   *)
(***************************************************************************)
\* the characters of the free-form strings
Alphabet ==
    {"1", ".", "-", "a", "A", "+", " ", "^", "~", "=", ">", "<", "!", "*", ","}

FreeStrings == UNION {[1..n -> Alphabet] : n \in 0..MaxLen}

\* operators followed by text that is no version
ExampleSpecStrings ==
    { <<"^","a","b","c">>, <<">","=","f","o","o">> }

\* comma-separated constraints that are no >=X,<Y range
CommaSpecStrings ==
    { <<">","=","1",",","<","=","2">>, <<">","1",",","<","2">>,
      <<">","=","f","o","o",",","<","2">>, <<">","=","1",",","<","f","o","o">>,
      <<"<","2",",",">","=","1">>, <<">","=","1",","," ","<","2">>,
      <<">","=","1",",","<">>, <<"1",",","2">> }

\* semver literals with a '-' before the tag, and a two-component literal
DashLiterals ==
    { <<"1",".","2",".","3","-","r","c","1">>,
      <<"1",".","2",".","3","-","b","e","t","a","1">>,
      <<"1",".","2",".","3","-","1">>, <<"1",".","2",".","3">>, <<"2",".","0">> }

ParserInputs ==
    FreeStrings \cup SpecStrings \cup VersionLiterals \cup ExampleSpecStrings
    \cup CommaSpecStrings \cup DashLiterals

InitParse ==
    /\ input \in ParserInputs
    /\ parsed = None
    /\ IdleOrd /\ IdleSat /\ IdleRes /\ IdleReg /\ IdleLater

\* VersionSpec::parse(input)
ParseSpec ==
    /\ parsed = None
    /\ parsed' = Some([op |-> "VersionSpec::parse", r |-> VersionSpecParse(input)])
    /\ UNCHANGED << input, ordVars, satVars, resVars, regVars, laterVars >>

\* Version::from_str(input)
ParseVersion ==
    /\ parsed = None
    /\ parsed' = Some([op |-> "Version::from_str", r |-> VersionFromStr(input)])
    /\ UNCHANGED << input, ordVars, satVars, resVars, regVars, laterVars >>

NextParse == ParseSpec \/ ParseVersion

SpecParse == InitParse /\ [][NextParse]_vars

(***************************************************************************)
(* SpecRes: one call of DependencyResolver::resolve, as run_project_mode   *)
(* makes it for a dependency whose package the registry client fetched.    *)
(***************************************************************************)
InitRes ==
    /\ \E t \in ArgsAndPackages \X Dependencies \X InstalledVersions :
          /\ args = t[1][1]
          /\ package_info = t[1][2]
          /\ dependency = t[2]
          /\ installed = t[3]
    /\ check = None
    /\ severity = None
    /\ IdleOrd /\ IdleSat /\ IdleParse /\ IdleReg /\ IdleLater

\* resolver.resolve(dependency, package_info, installed)
Resolve ==
    /\ check = None
    /\ check' = Some(resolve(args, dependency, package_info, installed))
    /\ UNCHANGED << args, dependency, package_info, installed, severity,
                    ordVars, satVars, parseVars, regVars, laterVars >>

NextRes == Resolve

SpecRes == InitRes /\ [][NextRes]_vars

(***************************************************************************)
(* SpecSev: DependencyCheck::update_severity on a check.                   *)
(***************************************************************************)
InitSev ==
    /\ check \in {Some(ck) : ck \in SeverityChecks}
    /\ severity = None
    /\ args = None /\ dependency = None /\ package_info = None /\ installed = None
    /\ IdleOrd /\ IdleSat /\ IdleParse /\ IdleReg /\ IdleLater

\* check.update_severity()
UpdateSeverity ==
    /\ IsSome(check)
    /\ severity = None
    /\ severity' = Some(update_severity(Unwrap(check)))
    /\ UNCHANGED << args, dependency, package_info, installed, check,
                    ordVars, satVars, parseVars, regVars, laterVars >>

NextSev == UpdateSeverity

SpecSev == InitSev /\ [][NextSev]_vars

(***************************************************************************)
(* SpecReg: one fetch of a package by each of the registry clients.        *)
(***************************************************************************)
\* version strings of a registry answer: releases, literals that parse to
\* equal versions, pre-releases, and one that is no version
RegistryNums ==
    {Str3(x, 0, 0) : x \in 0..MaxMajor}
    \cup { <<"1",".","0">>, <<"1",".","1",".","0","r","c","1">>,
           <<"1",".","0",".","0","-","b","e","t","a">>,
           <<"1",".","0",".","1","-","b","e","t","a">>, <<"x">> }

\* the entries of an answer in the order the client iterates them
RegistryEntries ==
    UNION {[1..n -> [num : RegistryNums, yanked : BOOLEAN]] : n \in 0..MaxAvail}

\* the "latest" entry of npm's dist-tags
LatestTags == {None, Some(<<"1",".","0",".","0">>), Some(<<"x">>)}

\* the keys of a map are pairwise different
DistinctKeys(entries) ==
    \A i, j \in 1..Len(entries) : i # j => entries[i].num # entries[j].num

InitReg ==
    /\ \E t \in RegistryEntries \X LatestTags \X BOOLEAN :
          /\ response = [versions |-> t[1], latest_tag |-> t[2]]
          /\ include_prerelease = t[3]
    /\ fetched = None
    /\ IdleOrd /\ IdleSat /\ IdleParse /\ IdleRes /\ IdleLater

\* PyPiClient::get_package : releases is a map keyed by version string
PyPiFetch ==
    /\ fetched = None
    /\ DistinctKeys(response.versions)
    /\ fetched' = Some([client |-> "pypi",
                         r |-> PyPiGetPackage(response.versions, include_prerelease)])
    /\ UNCHANGED << response, include_prerelease, ordVars, satVars, parseVars, resVars,
                    laterVars >>

\* CratesIoClient::get_package : versions is a list
CratesIoFetch ==
    /\ fetched = None
    /\ fetched' = Some([client |-> "crates.io",
                         r |-> CratesIoGetPackage(response.versions, include_prerelease)])
    /\ UNCHANGED << response, include_prerelease, ordVars, satVars, parseVars, resVars,
                    laterVars >>

\* NpmClient::get_package : versions is a map keyed by version string
NpmFetch ==
    /\ fetched = None
    /\ DistinctKeys(response.versions)
    /\ fetched' = Some([client |-> "npm",
                         r |-> NpmGetPackage(response.versions, response.latest_tag,
                                             include_prerelease)])
    /\ UNCHANGED << response, include_prerelease, ordVars, satVars, parseVars, resVars,
                    laterVars >>

NextReg == PyPiFetch \/ CratesIoFetch \/ NpmFetch

SpecReg == InitReg /\ [][NextReg]_vars

(***************************************************************************)
(* SpecUpd: one call of FileUpdater::apply_updates.                        *)
(***************************************************************************)
SourceFiles == {"requirements.txt", "pyproject.toml"}

Severities == {None, Some("Patch"), Some("Minor"), Some("Major")}

\* the DependencyChecks of core/src/types.rs, with the fields the updater
\* reads
UpdaterChecks ==
    [dependency : [name : {"pkg"}, source_file : SourceFiles],
     severity : Severities,
     target_spec : {None, Some(Caret(VersionNew(1, 0, 1)))},
     force_spec : {None, Some(Minimum(VersionNew(2, 0, 0)))}]

CheckLists == UNION {[1..n -> UpdaterChecks] : n \in 0..MaxChecks}

InitUpd ==
    /\ \E t \in CheckLists \X BOOLEAN \X BOOLEAN \X (SUBSET SourceFiles) :
          /\ checks = t[1]
          /\ include_minor = t[2]
          /\ force = t[3]
          /\ unwritable = t[4]
    /\ applied = None
    /\ IdleEarly /\ IdleNet

\* FileUpdater::apply_updates of the Python tool
PcuApplyUpdates ==
    /\ applied = None
    /\ \E r \in apply_updates("pcu", checks, include_minor, force, unwritable) :
          applied' = Some([tool |-> "pcu", r |-> r])
    /\ UNCHANGED << checks, include_minor, force, unwritable, earlyVars, netVars >>

\* FileUpdater::apply_updates of the Cargo tool
CcuApplyUpdates ==
    /\ applied = None
    /\ \E r \in apply_updates("ccu", checks, include_minor, force, unwritable) :
          applied' = Some([tool |-> "ccu", r |-> r])
    /\ UNCHANGED << checks, include_minor, force, unwritable, earlyVars, netVars >>

NextUpd == PcuApplyUpdates \/ CcuApplyUpdates

SpecUpd == InitUpd /\ [][NextUpd]_vars

(***************************************************************************)
(* SpecGlo: run_global_mode on one globally installed package, from the    *)
(* answer of the registry on.  `installed` is the version of the package,  *)
(* `package_info` the entry of package_infos for its name, if there is one.*)
(***************************************************************************)
\* the versions of the installed tools
GlobalInstalled == ParseAll(ManifestLiterals \cup CandidateLiterals)

InitGlo ==
    /\ \E t \in ArgsAndPackages \X GlobalInstalled \X BOOLEAN :
          /\ args = t[1][1]
          /\ package_info = IF t[3] THEN Some(t[1][2]) ELSE None
          /\ installed = t[2]
    /\ dependency = None
    /\ check = None
    /\ severity = None
    /\ IdleOrd /\ IdleSat /\ IdleParse /\ IdleReg /\ IdleLater

\* the body of `for package in packages` in run_global_mode
GlobalCheckPackage ==
    /\ check = None
    /\ IsSome(package_info)
    /\ check' = Some(GlobalCheckOf(args, [name |-> "pkg", installed_version |-> installed],
                                   Unwrap(package_info)))
    /\ UNCHANGED << args, dependency, package_info, installed, severity,
                    ordVars, satVars, parseVars, regVars, laterVars >>

\* check.update_severity() of the renderer
GlobalUpdateSeverity ==
    /\ IsSome(check)
    /\ severity = None
    /\ severity' = Some(global_update_severity(Unwrap(check)))
    /\ UNCHANGED << args, dependency, package_info, installed, check,
                    ordVars, satVars, parseVars, regVars, laterVars >>

NextGlo == GlobalCheckPackage \/ GlobalUpdateSeverity

SpecGlo == InitGlo /\ [][NextGlo]_vars

(***************************************************************************)
(* SpecNet: one call of get_packages; the tasks it spawns run in any       *)
(* order.  The callers hand it a list of distinct names (they collect them *)
(* through a HashSet).                                                     *)
(***************************************************************************)
Clients == {"pypi", "cratesio"}

PackageNames == { <<"a">>, <<"b">>, <<"a","b">> }

\* lists of distinct names, in whatever order the HashSet gave them
NameLists ==
    UNION {{q \in [1..n -> PackageNames] : \A i, j \in 1..n : i # j => q[i] # q[j]} :
              n \in 0..MaxNames}

\* a call with few names, every answer of the registry, either callback
FewNames ==
    UNION {[client : Clients, names : {q}, outcome : [1..Len(q) -> {"ok", "err"}],
            callback : {"set_position", "count"}] : q \in NameLists}

\* the name of the i-th of many packages
Numbered(i) == <<"p">> \o FmtU64(i)

\* a call with more names than the semaphore has permits
ManyNames ==
    UNION {[client : {cl},
            names : {[i \in 1..(Permits(cl) + MaxQueued) |-> Numbered(i)]},
            outcome : {[i \in 1..(Permits(cl) + MaxQueued) |-> "ok"],
                       [i \in 1..(Permits(cl) + MaxQueued) |-> "err"],
                       [i \in 1..(Permits(cl) + MaxQueued) |->
                           IF i % 2 = 0 THEN "ok" ELSE "err"]},
            callback : {"count"}] : cl \in Clients}

\* get_packages up to the end of the loop that spawns the tasks
InitNet ==
    /\ \E t \in FewNames \cup ManyNames :
          /\ client = t.client
          /\ names = t.names
          /\ outcome = t.outcome
          /\ callback = t.callback
          /\ pc = [i \in 1..Len(t.names) |-> "spawned"]
          /\ permits = Permits(t.client)
          /\ progress = IF t.callback = "set_position" THEN << >> ELSE 0
    /\ returned = None
    /\ IdleEarly /\ IdleUpd

\* a task gets its permit and sends its request:
\* `let _permit = semaphore.acquire().await.unwrap();` and the call of
\* client.get_package
Acquire ==
    /\ \E i \in DOMAIN pc :
          /\ pc[i] = "spawned"
          /\ CanAcquire(permits)
          /\ pc' = [pc EXCEPT ![i] = "fetching"]
          /\ permits' = permits - 1
    /\ UNCHANGED << client, names, outcome, callback, progress, returned,
                    earlyVars, updVars >>

\* the answer to a task's request arrives: the task runs the callback,
\* returns (name, result) and drops its permit
Complete ==
    /\ \E i \in DOMAIN pc :
          /\ pc[i] = "fetching"
          /\ progress' = RunCallback(callback, progress,
                                     CallbackCurrent(i - 1, progress), Len(names))
          /\ pc' = [pc EXCEPT ![i] = "finished"]
          /\ permits' = permits + 1
    /\ UNCHANGED << client, names, outcome, callback, returned, earlyVars, updVars >>

\* the loop that awaits the tasks has come to its end: get_packages returns
Return ==
    /\ returned = None
    /\ \A i \in DOMAIN pc : pc[i] = "finished"
    /\ returned' = Some(GetPackagesResult(client, names, outcome))
    /\ UNCHANGED << client, names, outcome, callback, pc, permits, progress,
                    earlyVars, updVars >>

NextNet == Acquire \/ Complete \/ Return

SpecNet == InitNet /\ [][NextNet]_vars

(***************************************************************************)
(* Properties of Version's ordering and equality (SpecOrd).                *)
(***************************************************************************)
Compared == IsSome(ord)
Ord == Unwrap(ord)

\* a < b, a == b, a > b as the operators of PartialOrd and PartialEq give them
Less_ab == Ord.ab = -1
Equal_ab == Ord.eq_ab
Greater_ab == Ord.ab = 1

SameNumbers(x, y) == x.major = y.major /\ x.minor = y.minor /\ x.patch = y.patch

\* s precedes t in the lexical (byte-wise) order of strings
LexLess(s, t) ==
    \E k \in 1..(Len(t)) :
        /\ \A i \in 1..(k - 1) : i <= Len(s) /\ s[i] = t[i]
        /\ \/ k = Len(s) + 1
           \/ k <= Len(s) /\ Code(s[k]) < Code(t[k])

\* C2: the Version ordering is total and transitive: for parsed versions
\* a, b, c exactly one of a < b, a == b, a > b holds, and a < b with b < c
\* implies a < c.
C2_TotalTransitive ==
    Compared =>
        /\ \/ Less_ab /\ ~Equal_ab /\ ~Greater_ab
           \/ ~Less_ab /\ Equal_ab /\ ~Greater_ab
           \/ ~Less_ab /\ ~Equal_ab /\ Greater_ab
        /\ (Ord.ab = -1 /\ Ord.bc = -1) => Ord.ac = -1

\* a chain a < b < c that rests on the pre-release tag alone
C2_Witness ==
    /\ Compared
    /\ Ord.ab = -1 /\ Ord.bc = -1 /\ Ord.ac = -1
    /\ SameNumbers(a, b) /\ SameNumbers(b, c)
    /\ is_prerelease(a) /\ is_prerelease(b) /\ ~is_prerelease(c)

\* C3: at equal major, minor and patch the version without a pre-release
\* tag is strictly greater than the one with a tag (1.0.0-rc1 < 1.0.0), and
\* two tagged versions are ordered by lexical comparison of their tags.
C3_PreReleaseOrder ==
    (Compared /\ SameNumbers(a, b)) =>
        /\ (~is_prerelease(a) /\ is_prerelease(b)) => (Ord.ab = 1 /\ Ord.ba = -1)
        /\ (is_prerelease(a) /\ is_prerelease(b)) =>
              /\ Ord.ab = -1 <=> LexLess(Unwrap(a.pre_release), Unwrap(b.pre_release))
              /\ Ord.ab = 1 <=> LexLess(Unwrap(b.pre_release), Unwrap(a.pre_release))
        /\ (a.original = <<"1",".","0",".","0","-","r","c","1">>
            /\ b.original = <<"1",".","0",".","0">>) => Ord.ab = -1

\* the parse of 1.0.0-rc1 compared with the parse of 1.0.0
C3_Witness ==
    /\ Compared
    /\ a.original = <<"1",".","0",".","0","-","r","c","1">>
    /\ b.original = <<"1",".","0",".","0">>
    /\ Ord.ab = -1

\* C4: two Versions are equal iff major, minor, patch and pre-release tag
\* are equal; the local segment and the original literal never affect
\* equality; cmp returns Equal for exactly the pairs == reports equal.
C4_Equality ==
    Compared =>
        /\ Ord.eq_ab <=> (SameNumbers(a, b) /\ a.pre_release = b.pre_release)
        /\ Ord.ab = 0 <=> Ord.eq_ab

\* equal versions whose local segment and literal differ
C4_Witness ==
    /\ Compared
    /\ Ord.eq_ab /\ Ord.ab = 0
    /\ a.local # b.local
    /\ a.original # b.original

(***************************************************************************)
(* Properties of VersionSpec::satisfies (SpecSat).                         *)
(***************************************************************************)
Applied(op) == IsSome(res) /\ Unwrap(res).op = op
Result == Unwrap(res).val

Lit3(x, y, z) == VersionFromStr(Str3(x, y, z)).val

\* C1: Caret(b).satisfies(v) is false when v < b; otherwise for b = 0.0.z it
\* holds iff v is 0.0.z too; for b = 0.y.z with y > 0 iff v.major = 0 and
\* v.minor = y; for b.major > 0 iff v.major = b.major.
C1_Caret ==
    (Applied("satisfies") /\ spec.kind = "Caret") =>
        LET base == spec.v
            v == version
        IN  /\ VLt(v, base) => Result = FALSE
            /\ (~VLt(v, base) /\ base.major = 0 /\ base.minor = 0) =>
                  (Result <=> (v.major = 0 /\ v.minor = 0 /\ v.patch = base.patch))
            /\ (~VLt(v, base) /\ base.major = 0 /\ base.minor > 0) =>
                  (Result <=> (v.major = 0 /\ v.minor = base.minor))
            /\ (~VLt(v, base) /\ base.major > 0) =>
                  (Result <=> v.major = base.major)
            /\ (base = Lit3(1, 2, 3) /\ v = Lit3(1, 9, 9)) => Result = TRUE
            /\ (base = Lit3(1, 2, 3) /\ v = Lit3(2, 0, 0)) => Result = FALSE
            /\ (base = Lit3(0, 2, 3) /\ v = Lit3(0, 2, 9)) => Result = TRUE
            /\ (base = Lit3(0, 2, 3) /\ v = Lit3(0, 3, 0)) => Result = FALSE
            /\ (base = Lit3(0, 0, 3) /\ v = Lit3(0, 0, 3)) => Result = TRUE
            /\ (base = Lit3(0, 0, 3) /\ v = Lit3(0, 0, 4)) => Result = FALSE

\* ^0.0.3 asked about 0.0.4
C1_Witness ==
    /\ Applied("satisfies")
    /\ spec = Caret(Lit3(0, 0, 3))
    /\ version = Lit3(0, 0, 4)
    /\ Result = FALSE

\* the order of two versions as cmp gives it
Before(x, y) == VersionCmp(x, y) = -1
Same(x, y) == VersionCmp(x, y) = 0

\* C13: for every variant other than Caret satisfies follows the table:
\* Any and Complex always; Pinned(b) iff v == b; Minimum(b) iff v >= b;
\* Maximum(b) iff v <= b; GreaterThan(b) iff v > b; LessThan(b) iff v < b;
\* NotEqual(b) iff v != b; Range iff min <= v < max (>=1.0.0,<2.0.0 admits
\* 1.5.0 and rejects 2.0.0 and 0.9.0); Tilde(b) and Compatible(b) iff
\* v >= b with the major and minor of b; Wildcard iff the original literal
\* of v starts with the prefix.
C13_SatisfiesTable ==
    (Applied("satisfies") /\ spec.kind # "Caret") =>
        LET v == version
            k == spec.kind
        IN  /\ k \in {"Any", "Complex"} => Result = TRUE
            /\ k = "Pinned" => (Result <=> VersionEq(v, spec.v))
            /\ k = "Minimum" => (Result <=> ~Before(v, spec.v))
            /\ k = "Maximum" => (Result <=> (Before(v, spec.v) \/ Same(v, spec.v)))
            /\ k = "GreaterThan" => (Result <=> Before(spec.v, v))
            /\ k = "LessThan" => (Result <=> Before(v, spec.v))
            /\ k = "NotEqual" => (Result <=> ~VersionEq(v, spec.v))
            /\ k = "Range" =>
                  (Result <=> (~Before(v, spec.min) /\ Before(v, spec.max)))
            /\ k \in {"Tilde", "Compatible"} =>
                  (Result <=> /\ ~Before(v, spec.v)
                              /\ v.major = spec.v.major
                              /\ v.minor = spec.v.minor)
            /\ k = "Wildcard" =>
                  (Result <=> /\ Len(v.original) >= Len(spec.prefix)
                              /\ \A i \in 1..Len(spec.prefix) :
                                     v.original[i] = spec.prefix[i])
            /\ spec = Range(Lit3(1, 0, 0), Lit3(2, 0, 0)) =>
                  /\ v = Lit3(1, 5, 0) => Result = TRUE
                  /\ v = Lit3(2, 0, 0) => Result = FALSE
                  /\ v = Lit3(0, 9, 0) => Result = FALSE

\* >=1.0.0,<2.0.0 asked about its upper bound 2.0.0
C13_Witness ==
    /\ Applied("satisfies")
    /\ spec = Range(Lit3(1, 0, 0), Lit3(2, 0, 0))
    /\ version = Lit3(2, 0, 0)
    /\ Result = FALSE

\* the variants whose satisfying versions max_major bounds
BoundedAbove ==
    \/ spec.kind \in {"Pinned", "Maximum", "LessThan", "Caret", "Tilde",
                      "Compatible", "Range"}
    \/ spec.kind = "Wildcard" /\ Contains(spec.prefix, <<".">>)

\* C18 as stated: max_major is the highest major the spec admits: if it is
\* Some(m), every version that satisfies the spec has major <= m.
C18_MaxMajorBounds ==
    (Applied("max_major") /\ IsSome(Result) /\ satisfies(spec, version)) =>
        version.major <= Unwrap(Result)

\* C18 amended: that bound holds for Pinned, Maximum, LessThan, Caret,
\* Tilde, Compatible and Range specs and for a Wildcard whose prefix has a
\* '.'; for Minimum, GreaterThan and NotEqual specs max_major is the major
\* of the version of the spec, and for a Wildcard the leading number of the
\* prefix, whatever versions satisfy the spec.
C18_MaxMajorBoundsBounded ==
    Applied("max_major") =>
        /\ (BoundedAbove /\ IsSome(Result) /\ satisfies(spec, version)) =>
              version.major <= Unwrap(Result)
        /\ spec.kind \in {"Minimum", "GreaterThan", "NotEqual"} =>
              Result = Some(spec.v.major)
        /\ spec.kind = "Wildcard" => Result = ParseU64(Split(spec.prefix, ".")[1])
        /\ spec.kind \in {"Any", "Complex"} => Result = None

\* >=0.1.0,<2.0.0 has max_major 2 and admits a version of major 1
C18_Witness ==
    /\ Applied("max_major")
    /\ spec = Range(Lit3(0, 1, 0), Lit3(2, 0, 0))
    /\ Result = Some(2)
    /\ satisfies(spec, version)
    /\ version.major = 1

\* C12: with_version preserves the variant of every spec other than
\* Complex and Any; for the single-version variants (Pinned, Minimum,
\* Maximum, GreaterThan, LessThan, NotEqual, Caret, Tilde, Compatible) the
\* payload of the result is the new version; Complex and Any are returned
\* unchanged.
C12_RetargetPreservesShape ==
    Applied("with_version") =>
        /\ spec.kind \notin {"Complex", "Any"} => Result.kind = spec.kind
        /\ spec.kind \in SingleKinds =>
              /\ DOMAIN Result = {"kind", "v"}
              /\ Result.v = version
        /\ spec.kind \in {"Complex", "Any"} => Result = spec

\* a range retargeted to a version at or above its upper bound is a range
C12_Witness ==
    /\ Applied("with_version")
    /\ spec.kind = "Range"
    /\ VGe(version, spec.max)
    /\ Result.kind = "Range"
    /\ Result.min = version

(***************************************************************************)
(* Properties of VersionSpec::parse (SpecParse).                           *)
(***************************************************************************)
SpecParsed == IsSome(parsed) /\ Unwrap(parsed).op = "VersionSpec::parse"
Parse == Unwrap(parsed).r

\* the operators of parse that take a version operand; a two-character
\* operator is matched before its one-character prefix
OperandOperators ==
    << <<"^">>, <<"~","=">>, <<"~">>, <<"=","=">>, <<">","=">>,
       <<"<","=">>, <<"!","=">>, <<">">>, <<"<">> >>

OperatorOf(s) ==
    LET hits == {i \in 1..Len(OperandOperators) : StartsWith(s, OperandOperators[i])}
    IN  IF hits = {} THEN None
        ELSE Some(OperandOperators[CHOOSE i \in hits : \A j \in hits : i <= j])

OperandOf(s) == Slice(s, Len(Unwrap(OperatorOf(s))), Len(s))

IsVersion(s) == VersionFromStr(s).ok

\* s is two comma-separated clauses ">=X" and "<Y"
TwoClauseRange(s) ==
    LET parts == Split(s, ",")
    IN  /\ Len(parts) = 2
        /\ StartsWith(Trim(parts[1]), <<">","=">>)
        /\ StartsWith(Trim(parts[2]), <<"<">>)

RangeBoundsValid(s) ==
    LET parts == Split(s, ",")
    IN  /\ IsVersion(Slice(Trim(parts[1]), 2, Len(Trim(parts[1]))))
        /\ IsVersion(Slice(Trim(parts[2]), 1, Len(Trim(parts[2]))))

\* the inputs on which parse is an error: an operator whose operand is no
\* version, or a >=X,<Y range one of whose bounds is no version
OperandInvalid(s) ==
    /\ s # << >> /\ s # <<"*">>
    /\ IsSome(OperatorOf(s))
    /\ \/ Unwrap(OperatorOf(s)) \in {<<"^">>, <<"~","=">>, <<"~">>}
       \/ ~Contains(s, <<"*">>) /\ ~Contains(s, <<",">>)
    /\ ~IsVersion(OperandOf(s))

RangeInvalid(s) ==
    /\ ~StartsWith(s, <<"^">>) /\ ~StartsWith(s, <<"~">>)
    /\ ~Contains(s, <<"*">>)
    /\ Contains(s, <<",">>)
    /\ TwoClauseRange(s)
    /\ ~RangeBoundsValid(s)

KindOf(op) ==
    CASE op = <<"^">> -> "Caret" [] op = <<"~","=">> -> "Compatible"
      [] op = <<"~">> -> "Tilde" [] op = <<"=","=">> -> "Pinned"
      [] op = <<">","=">> -> "Minimum" [] op = <<"<","=">> -> "Maximum"
      [] op = <<"!","=">> -> "NotEqual" [] op = <<">">> -> "GreaterThan"
      [] op = <<"<">> -> "LessThan"

VersionOf(s) == VersionFromStr(s).val

\* C14: parse classifies by the first matching rule in a fixed order: empty
\* or '*' gives Any; '^V' Caret; '~=V' Compatible, before bare '~'; '~V'
\* Tilde; a string containing '*' Wildcard; then (for a string without
\* ',') '==V' Pinned, '>=V' Minimum, '<=V' Maximum, '!=V' NotEqual, '>V'
\* GreaterThan, '<V' LessThan, a two-character operator never read as its
\* one-character prefix; and a bare version gives Pinned.
C14_FirstMatchingRule ==
    SpecParsed =>
        LET s == Trim(input)
            op == OperatorOf(s)
            early == IsSome(op) /\ Unwrap(op) \in {<<"^">>, <<"~","=">>, <<"~">>}
        IN  /\ (s = << >> \/ s = <<"*">>) => (Parse.ok /\ Parse.val = AnySpec)
            /\ (early /\ IsVersion(OperandOf(s))) =>
                  /\ Parse.ok
                  /\ Parse.val = Single(KindOf(Unwrap(op)), VersionOf(OperandOf(s)))
            /\ (~early /\ s # <<"*">> /\ Contains(s, <<"*">>)) =>
                  (Parse.ok /\ Parse.val.kind = "Wildcard")
            /\ (~early /\ IsSome(op) /\ ~Contains(s, <<"*">>) /\ ~Contains(s, <<",">>)
                /\ IsVersion(OperandOf(s))) =>
                  /\ Parse.ok
                  /\ Parse.val = Single(KindOf(Unwrap(op)), VersionOf(OperandOf(s)))
            /\ (IsNone(op) /\ ~Contains(s, <<"*">>) /\ ~Contains(s, <<",">>)
                /\ IsVersion(s)) =>
                  (Parse.ok /\ Parse.val = Pinned(VersionOf(s)))
            /\ (StartsWith(s, <<"~","=">>) /\ Parse.ok) => Parse.val.kind # "Tilde"
            /\ (StartsWith(s, <<">","=">>) /\ Parse.ok) => Parse.val.kind # "GreaterThan"
            /\ (StartsWith(s, <<"<","=">>) /\ Parse.ok) => Parse.val.kind # "LessThan"

\* >=1.0.0 is a Minimum, not a GreaterThan
C14_Witness ==
    /\ SpecParsed
    /\ input = <<">","=","1",".","0",".","0">>
    /\ Parse.ok
    /\ Parse.val = Minimum(Lit3(1, 0, 0))

\* the inputs that reach the ',' branch of parse
CommaInput(s) ==
    /\ Contains(s, <<",">>)
    /\ ~StartsWith(s, <<"^">>) /\ ~StartsWith(s, <<"~">>)
    /\ ~Contains(s, <<"*">>)

RangeOf(s) ==
    LET parts == Split(s, ",")
    IN  Range(VersionOf(Slice(Trim(parts[1]), 2, Len(Trim(parts[1])))),
              VersionOf(Slice(Trim(parts[2]), 1, Len(Trim(parts[2])))))

\* C15 as stated: an input with a comma (and no '^' or '~' prefix, no '*')
\* gives Range{min,max} when it is exactly two clauses '>=X' and '<Y' with
\* versions X and Y, and in every other case ('<=Y', unparseable bounds,
\* more clauses, other operators) Complex holding the raw string.
C15_RangeElseComplex ==
    (SpecParsed /\ CommaInput(Trim(input))) =>
        LET s == Trim(input)
        IN  /\ Parse.ok
            /\ Parse.val = IF TwoClauseRange(s) /\ RangeBoundsValid(s)
                            THEN RangeOf(s) ELSE Complex(s)

\* C15 amended: such an input gives Range{min,max} when it is exactly two
\* clauses '>=X' and '<Y' with versions X and Y; Err(InvalidVersion) when
\* it is two such clauses and X or Y is no version (the '<=Y' clause, read
\* as '<' followed by '=Y', included); and Complex holding the trimmed
\* string in every other case.
C15_RangeErrorOrComplex ==
    (SpecParsed /\ CommaInput(Trim(input))) =>
        LET s == Trim(input)
        IN  IF ~TwoClauseRange(s) THEN Parse.ok /\ Parse.val = Complex(s)
            ELSE IF RangeBoundsValid(s) THEN Parse.ok /\ Parse.val = RangeOf(s)
            ELSE ~Parse.ok /\ Parse.err = "InvalidVersion"

\* >=1,<=2 is an error
C15_Witness ==
    /\ SpecParsed
    /\ input = <<">","=","1",",","<","=","2">>
    /\ ~Parse.ok

VersionParsed == IsSome(parsed) /\ Unwrap(parsed).op = "Version::from_str"

\* the part of a trimmed literal before the local segment
VersionPart(s) ==
    IF Contains(s, <<"+">>) THEN Slice(s, 0, Unwrap(Find(s, <<"+">>))) ELSE s

\* the non-zero offsets at which a pre-release marker occurs
MarkerOffsets(s) ==
    {i \in 1..(Len(s) - 1) :
        \E k \in 1..Len(PrePatterns) : i \in Occurrences(ToLowercase(s), PrePatterns[k])}

FirstMarker(s) == CHOOSE i \in MarkerOffsets(s) : \A j \in MarkerOffsets(s) : i <= j

\* t is three dot-separated numbers
IsXYZ(t) ==
    /\ Len(Split(t, ".")) = 3
    /\ \A i \in 1..3 : IsSome(ParseU64(Split(t, ".")[i]))

\* s is X.Y.Z followed by '-' and a tag
DashForm(s) ==
    /\ Contains(s, <<"-">>)
    /\ ~Contains(s, <<"+">>)
    /\ IsXYZ(Slice(s, 0, Unwrap(Find(s, <<"-">>))))
    /\ Len(s) > Unwrap(Find(s, <<"-">>)) + 1

\* C16: Version::from_str splits the literal at the pre-release marker that
\* occurs first at a non-zero offset and keeps everything from there on as
\* the tag, so that X.Y.Z followed by '-' and a tag (1.2.3-rc1,
\* 1.2.3-beta1) parses to major X, minor Y, patch Z and a tag that begins
\* at the '-'.
C16_SplitAtFirstMarker ==
    VersionParsed =>
        LET s == Trim(input)
            vp == VersionPart(s)
            dash == Unwrap(Find(s, <<"-">>))
            xyz == Split(Slice(s, 0, dash), ".")
        IN  /\ (Parse.ok /\ MarkerOffsets(vp) # {}) =>
                  Parse.val.pre_release = Some(Slice(vp, FirstMarker(vp), Len(vp)))
            /\ DashForm(s) =>
                  /\ Parse.ok
                  /\ Parse.val.major = Unwrap(ParseU64(xyz[1]))
                  /\ Parse.val.minor = Unwrap(ParseU64(xyz[2]))
                  /\ Parse.val.patch = Unwrap(ParseU64(xyz[3]))
                  /\ Parse.val.pre_release = Some(Slice(s, dash, Len(s)))

\* the dot-separated segments of the numeric prefix: what parse_prerelease
\* leaves of the trimmed literal without its local segment
Segments(s) == Split(parse_prerelease(VersionPart(s))[1], ".")

\* t is a non-negative integer in decimal digits
IsNumber(t) == t # << >> /\ \A i \in 1..Len(t) : t[i] \in {DigitChar(d) : d \in 0..9}

\* the i-th segment as a number, 0 when it is absent or no number
SegmentOr0(segs, i) ==
    IF i <= Len(segs) /\ IsNumber(segs[i]) THEN DigitsVal(segs[i]) ELSE 0

\* what C17 says of the numbers of a parsed version and of the inputs that
\* fail
ParsesIffMajor(s) ==
    /\ Parse.ok <=> IsNumber(Segments(s)[1])
    /\ ~Parse.ok => Parse.err = "InvalidVersion"
    /\ s = << >> => ~Parse.ok
    /\ (s # << >> /\ ~IsDigit(s[1])) => ~Parse.ok
    /\ Parse.ok =>
          /\ Parse.val.major = DigitsVal(Segments(s)[1])
          /\ Parse.val.minor = SegmentOr0(Segments(s), 2)
          /\ Parse.val.patch = SegmentOr0(Segments(s), 3)
    /\ s = <<"2",".","0">> =>
          /\ Parse.ok
          /\ Parse.val.major = 2 /\ Parse.val.minor = 0 /\ Parse.val.patch = 0

\* C17 as stated: Version::from_str succeeds exactly when the first
\* dot-separated segment of the numeric prefix is a non-negative integer
\* and otherwise returns InvalidVersion; minor and patch are the second and
\* third segments, 0 when absent or unparseable ('2.0' is 2.0.0); the
\* original string is retained unmodified.
C17_ParsesIffMajorVerbatim ==
    VersionParsed =>
        /\ ParsesIffMajor(Trim(input))
        /\ Parse.ok => Parse.val.original = input

\* C17 amended: as stated, with the string retained being the input
\* without its leading and trailing whitespace.
C17_ParsesIffMajorTrimmed ==
    VersionParsed =>
        /\ ParsesIffMajor(Trim(input))
        /\ Parse.ok => Parse.val.original = Trim(input)

\* " 1." parses to 1.0.0 and keeps "1."
C17_Witness ==
    /\ VersionParsed
    /\ input = <<" ", "1", ".">>
    /\ Parse.ok
    /\ Parse.val.major = 1 /\ Parse.val.minor = 0 /\ Parse.val.patch = 0
    /\ Parse.val.original = <<"1", ".">>

(***************************************************************************)
(* Properties of DependencyResolver::resolve (SpecRes).                    *)
(***************************************************************************)
Resolved == IsSome(check)
Check == Unwrap(check)
Declared == dependency.version_spec
Unbounded == Declared.kind \in {"Minimum", "GreaterThan"}
Versions == package_info.versions

\* o is the maximum, in Version order, of the elements of vs at the
\* indices idx; None when there is none
IsMaximumOf(o, vs, idx) ==
    IF idx = {} THEN o = None
    ELSE /\ IsSome(o)
         /\ \E i \in idx : vs[i] = Unwrap(o)
         /\ \A j \in idx : VLe(vs[j], Unwrap(o))

InstalledMajorOr(m) ==
    IF IsSome(installed) /\ Unwrap(installed).major > m
    THEN Unwrap(installed).major ELSE m

\* the available versions that satisfy the declared spec, those of an
\* unbounded spec restricted to the target major
SatisfyingInMajor ==
    {i \in 1..Len(Versions) :
        /\ satisfies(Declared, Versions[i])
        /\ Unbounded => Versions[i].major = InstalledMajorOr(Declared.v.major)}

\* the number before the first '.' of a wildcard prefix, if it is one
PrefixMajor(prefix) == ParseU64(Split(prefix, ".")[1])

\* what NotEqual and Wildcard specs are capped by
WithinSpecMajor(v) ==
    /\ Declared.kind = "NotEqual" => v.major <= Declared.v.major
    /\ (Declared.kind = "Wildcard" /\ IsSome(PrefixMajor(Declared.prefix))) =>
          v.major <= Unwrap(PrefixMajor(Declared.prefix))

\* C6 as stated: in_range is the maximum of the available versions that
\* satisfy the spec, restricted for Minimum and GreaterThan specs to
\* major = max(spec base major, installed major); None iff there is none.
C6_InRangeIsMaxSatisfying ==
    Resolved => IsMaximumOf(Check.in_range, Versions, SatisfyingInMajor)

\* C6 amended: as stated, with the candidates of a NotEqual spec restricted
\* to major <= the major of its version and those of a Wildcard spec to
\* major <= the leading number of its prefix.
C6_InRangeIsMaxWithinMajor ==
    Resolved =>
        IsMaximumOf(Check.in_range, Versions,
                    {i \in SatisfyingInMajor : WithinSpecMajor(Versions[i])})

\* an unbounded spec whose installed version is on a higher major, with
\* versions of both majors available
C6_Witness ==
    /\ Resolved
    /\ Unbounded
    /\ IsSome(installed) /\ Unwrap(installed).major > Declared.v.major
    /\ \E i, j \in 1..Len(Versions) :
          /\ Versions[i].major = Declared.v.major
          /\ Versions[j].major = Unwrap(installed).major
    /\ IsSome(Check.in_range)
    /\ Unwrap(Check.in_range).major = Unwrap(installed).major

InstalledOnHigherMajor ==
    /\ Unbounded
    /\ IsSome(installed)
    /\ Unwrap(installed).major > Declared.v.major

InInstalledMajor ==
    {i \in 1..Len(Versions) : Versions[i].major = Unwrap(installed).major}

RewrittenBase == Unwrap(base_version(Unwrap(Check.update_to)))

\* C7 as stated: for a Minimum or GreaterThan spec whose installed version
\* is on a higher major than its base, in_range is the highest available
\* version of the installed major and the rewritten spec has its base
\* version in that major.
C7_RewriteInInstalledMajor ==
    (Resolved /\ InstalledOnHigherMajor) =>
        /\ IsMaximumOf(Check.in_range, Versions, InInstalledMajor)
        /\ IsSome(Check.update_to) =>
              RewrittenBase.major = Unwrap(installed).major

\* C7 amended: as stated when the force flag is not set; with the force
\* flag the rewritten spec carries the absolute latest version, whose major
\* is at least the installed major.
C7_RewriteNotBelowInstalledMajor ==
    (Resolved /\ InstalledOnHigherMajor) =>
        /\ IsMaximumOf(Check.in_range, Versions, InInstalledMajor)
        /\ (IsSome(Check.update_to) /\ ~args.force_latest) =>
              RewrittenBase.major = Unwrap(installed).major
        /\ (IsSome(Check.update_to) /\ args.force_latest) =>
              /\ RewrittenBase = package_info.latest
              /\ RewrittenBase.major >= Unwrap(installed).major

\* >=0.1.0 with 1.0.0 installed and 0.1.0, 1.1.0 available: in_range 1.1.0
\* and the rewritten spec >=1.1.0
C7_Witness ==
    /\ Resolved
    /\ ~args.force_latest
    /\ Declared = Minimum(Lit3(0, 1, 0))
    /\ installed = Some(Lit3(1, 0, 0))
    /\ Versions = << Lit3(0, 1, 0), Lit3(1, 1, 0) >>
    /\ Check.in_range = Some(Lit3(1, 1, 0))
    /\ Check.update_to = Some(Minimum(Lit3(1, 1, 0)))

InstalledIsLatestInRange ==
    /\ IsSome(installed)
    /\ VersionEq(Unwrap(installed), package_info.latest)
    /\ IsSome(Check.in_range)
    /\ VersionEq(Unwrap(Check.in_range), package_info.latest)

\* C8 as stated: if the installed version equals the latest one and the
\* in-range result is that version too, resolve reports no update.
C8_UpToDate ==
    (Resolved /\ InstalledIsLatestInRange) => ~has_update(Check)

\* C8 amended: in that case the check has no severity, and it carries no
\* rewritten spec exactly when the declared spec has a base version equal
\* to that version; otherwise the rewritten spec is the declared spec
\* retargeted to that version.
C8_UpToDateUnlessBaseDiffers ==
    (Resolved /\ InstalledIsLatestInRange) =>
        /\ update_severity(Check) = None
        /\ ~has_update(Check) <=>
              /\ IsSome(base_version(Declared))
              /\ VersionEq(Unwrap(base_version(Declared)), package_info.latest)
        /\ has_update(Check) =>
              /\ Unwrap(Check.update_to).kind = Declared.kind
              /\ IsSome(base_version(Declared)) =>
                    VersionEq(RewrittenBase, package_info.latest)

\* >=0.1.0 with the latest version 1.1.0 installed is rewritten to >=1.1.0
C8_Witness ==
    /\ Resolved /\ InstalledIsLatestInRange
    /\ Declared = Minimum(Lit3(0, 1, 0))
    /\ installed = Some(Lit3(1, 1, 0))
    /\ Check.update_to = Some(Minimum(Lit3(1, 1, 0)))
    /\ update_severity(Check) = None

NoCurrentVersion ==
    /\ IsNone(installed)
    /\ Declared.kind \in {"Any", "Wildcard", "Complex"}

\* C10 as stated: without an installed version and with an Any, Wildcard or
\* Complex spec the check carries no severity and no rewritten spec, and
\* is not reported as having an update.
C10_DisplayOnly ==
    (Resolved /\ NoCurrentVersion) =>
        /\ update_severity(Check) = None
        /\ Check.update_to = None
        /\ ~has_update(Check)

\* C10 amended: in that case the check carries no severity, but it has a
\* rewritten spec, and is reported as having an update, whenever the force
\* flag is set or an in-range version exists: the declared spec retargeted
\* to the latest (force) or in-range version, which for Any and Complex is
\* the declared spec itself.
C10_NoSeverityButRewritten ==
    (Resolved /\ NoCurrentVersion) =>
        /\ update_severity(Check) = None
        /\ has_update(Check) <=> (args.force_latest \/ IsSome(Check.in_range))
        /\ has_update(Check) =>
              Unwrap(Check.update_to) =
                  with_version(Declared, IF args.force_latest THEN package_info.latest
                                         ELSE Unwrap(Check.in_range))
        /\ (has_update(Check) /\ Declared.kind \in {"Any", "Complex"}) =>
              Unwrap(Check.update_to) = Declared

\* an unconstrained dependency without lock file entry is reported with
\* the rewrite of * to *
C10_Witness ==
    /\ Resolved /\ NoCurrentVersion
    /\ Declared = AnySpec
    /\ Check.update_to = Some(AnySpec)
    /\ update_severity(Check) = None

\* the current version of the declared dependency: the installed one, else
\* the base version of the spec
Current == IF IsSome(installed) THEN installed ELSE base_version(Declared)

LatestIsNewer == IsSome(Current) /\ VGt(package_info.latest, Unwrap(Current))

Forced == Some(with_version(Declared, package_info.latest))

\* C11 as stated: the forced rewrite is the declared spec retargeted to the
\* absolute latest version exactly when that version is strictly greater
\* than the current one (installed, else the base of the spec), and absent
\* otherwise.
C11_ForcedWhenNewer ==
    (Resolved /\ args.force_latest) =>
        Check.update_to = IF LatestIsNewer THEN Forced ELSE None

\* C11 amended: the forced rewrite does not depend on the in-range result.
\* For a Pinned spec it is Pinned(latest) exactly when the pinned version
\* differs from the latest one; for any other spec it is the declared spec
\* retargeted to the latest version exactly when the spec has no base
\* version or one that differs from the latest version, and the latest
\* version is not below the installed one.
C11_ForcedWhenDifferent ==
    (Resolved /\ args.force_latest) =>
        LET latest == package_info.latest
            differs == \/ IsNone(base_version(Declared))
                       \/ ~VersionEq(Unwrap(base_version(Declared)), latest)
            downgrade == IsSome(installed) /\ VLt(latest, Unwrap(installed))
        IN  Check.update_to =
                IF Declared.kind = "Pinned"
                THEN IF differs THEN Some(Pinned(latest)) ELSE None
                ELSE IF differs /\ ~downgrade THEN Forced ELSE None

\* ^1.0.0 with 1.0.0 in range and 2.0.0 the latest is forced to ^2.0.0
C11_Witness ==
    /\ Resolved /\ args.force_latest
    /\ Declared = Caret(Lit3(1, 0, 0))
    /\ Check.in_range = Some(Lit3(1, 0, 0))
    /\ package_info.latest = Lit3(2, 0, 0)
    /\ Check.update_to = Some(Caret(Lit3(2, 0, 0)))

\* the available versions on the major of the pinned version
OnPinnedMajor == {i \in 1..Len(Versions) : Versions[i].major = Declared.v.major}

\* C20: for a Pinned spec resolve returns no update in default mode,
\* whatever versions are available; with the minor flag Pinned(latest
\* available version of the major of the pinned version) when that differs
\* from the pinned version and no update otherwise; with the force flag
\* (which the code looks at first) Pinned(absolute latest) when that
\* differs from the pinned version and no update otherwise.
C20_PinnedPolicy ==
    (Resolved /\ Declared.kind = "Pinned") =>
        LET pinned == Declared.v
            latest == package_info.latest
        IN  /\ (~args.force_latest /\ ~args.minor) => Check.update_to = None
            /\ (~args.force_latest /\ args.minor) =>
                  \E m \in {None} \cup {Some(Versions[i]) : i \in OnPinnedMajor} :
                      /\ IsMaximumOf(m, Versions, OnPinnedMajor)
                      /\ Check.update_to =
                            IF IsSome(m) /\ ~VersionEq(pinned, Unwrap(m))
                            THEN Some(Pinned(Unwrap(m))) ELSE None
            /\ args.force_latest =>
                  Check.update_to =
                      IF ~VersionEq(pinned, latest) THEN Some(Pinned(latest)) ELSE None

\* ==1.0.0 with 1.1.0 and 2.0.0 available and the minor flag moves to
\* ==1.1.0
C20_Witness ==
    /\ Resolved
    /\ args.minor /\ ~args.force_latest
    /\ Declared = Pinned(Lit3(1, 0, 0))
    /\ Versions = << Lit3(1, 1, 0), Lit3(2, 0, 0) >>
    /\ Check.update_to = Some(Pinned(Lit3(1, 1, 0)))

(***************************************************************************)
(* Properties of the registry clients (SpecReg).                           *)
(***************************************************************************)
Built == IsSome(fetched) /\ Unwrap(fetched).r.ok
BuiltVersions == Unwrap(fetched).r.val.versions

PolicyFiltered ==
    ~include_prerelease =>
        \A i \in 1..Len(BuiltVersions) : ~is_prerelease(BuiltVersions[i])

\* C19 as stated: the versions of every PackageInfo a registry client
\* builds are in ascending Version order, contain no two equal Versions,
\* and hold no pre-release when pre-releases are excluded.
C19_SortedDedupFiltered ==
    Built =>
        /\ \A i, j \in 1..Len(BuiltVersions) :
              i < j => ~VGt(BuiltVersions[i], BuiltVersions[j])
        /\ \A i, j \in 1..Len(BuiltVersions) :
              i # j => ~VersionEq(BuiltVersions[i], BuiltVersions[j])
        /\ PolicyFiltered

\* C19 amended: the versions are in non-descending Version order and hold
\* no pre-release when pre-releases are excluded; every entry of the answer
\* that parses (and, for PyPI and crates.io, is not yanked) and passes the
\* policy is kept, so two entries that parse to equal Versions are both
\* in the list.
C19_SortedFiltered ==
    Built =>
        LET kept == {i \in 1..Len(response.versions) :
                        LET e == response.versions[i]
                        IN  /\ VersionFromStr(e.num).ok
                            /\ Unwrap(fetched).client # "npm" => ~e.yanked
                            /\ ~include_prerelease =>
                                   ~is_prerelease(VersionFromStr(e.num).val)}
        IN  /\ \A i, j \in 1..Len(BuiltVersions) :
                  i < j => VLe(BuiltVersions[i], BuiltVersions[j])
            /\ PolicyFiltered
            /\ Len(BuiltVersions) = Cardinality(kept)
            /\ \A i \in kept :
                  \E k \in 1..Len(BuiltVersions) :
                      BuiltVersions[k] = VersionFromStr(response.versions[i].num).val

\* PyPI answers 2.0.0, 1.1.0rc1 and pre-releases are excluded: the list
\* is 2.0.0 alone
C19_Witness ==
    /\ Built
    /\ Unwrap(fetched).client = "pypi"
    /\ ~include_prerelease
    /\ response.versions =
          << [num |-> <<"2",".","0",".","0">>, yanked |-> FALSE],
             [num |-> <<"1",".","1",".","0","r","c","1">>, yanked |-> FALSE] >>
    /\ BuiltVersions = << Lit3(2, 0, 0) >>

(***************************************************************************)
(* Properties of DependencyCheck::update_severity (SpecSev).               *)
(***************************************************************************)
Classified == IsSome(severity)
Severity == Unwrap(severity)

CurrentOf(ck) ==
    IF IsSome(ck.installed) THEN ck.installed
    ELSE base_version(ck.dependency.version_spec)

TargetOf(ck) ==
    IF IsSome(ck.update_to) THEN base_version(Unwrap(ck.update_to)) ELSE None

\* C9: the severity of an update from current to target is Major if
\* target.major > current.major; otherwise Minor if target.minor >
\* current.minor; otherwise Patch if target.patch > current.patch;
\* otherwise none (1.9.9 to 2.0.0 is Major).
C9_Severity ==
    (Classified /\ IsSome(CurrentOf(Check)) /\ IsSome(TargetOf(Check))) =>
        LET current == Unwrap(CurrentOf(Check))
            target == Unwrap(TargetOf(Check))
        IN  /\ target.major > current.major => Severity = Some("Major")
            /\ (target.major <= current.major /\ target.minor > current.minor) =>
                  Severity = Some("Minor")
            /\ (target.major <= current.major /\ target.minor <= current.minor
                /\ target.patch > current.patch) => Severity = Some("Patch")
            /\ (target.major <= current.major /\ target.minor <= current.minor
                /\ target.patch <= current.patch) => Severity = None
            /\ (current = Lit3(1, 9, 9) /\ target = Lit3(2, 0, 0)) =>
                  Severity = Some("Major")

\* 1.9.9 installed, target 2.0.0
C9_Witness ==
    /\ Classified
    /\ Check.installed = Some(Lit3(1, 9, 9))
    /\ TargetOf(Check) = Some(Lit3(2, 0, 0))
    /\ Severity = Some("Major")

(***************************************************************************)
(* Properties of FileUpdater::apply_updates (SpecUpd).                     *)
(***************************************************************************)
Updated == IsSome(applied)
Outcome == Unwrap(applied).r

\* the string the updater of the tool writes for a spec
WrittenFor(sp) ==
    IF Unwrap(applied).tool = "pcu" THEN FmtSpec(sp)
    ELSE IF sp.kind = "Any" THEN FmtSpec(sp) ELSE Unwrap(version_string(sp))

\* the check at position i was handed to update_file with new version nv
HandedOver(i, nv) ==
    /\ checks[i].dependency.source_file \in DOMAIN Outcome.file_updates
    /\ << i, nv >> \in Outcome.file_updates[checks[i].dependency.source_file]

Selected(i) == \E f \in DOMAIN Outcome.file_updates :
                  \E u \in Outcome.file_updates[f] : u[1] = i

\* C21: without force a check is written, with its target_spec, only if
\* its severity is Patch, or Minor with include_minor; a check of severity
\* Major or of no severity is never written; with force every check that
\* has a force_spec is written with that force_spec whatever its severity.
\* A file is in modified_files only if one of its checks was selected.
C21_SeverityFilter ==
    Updated =>
        /\ \A i \in 1..Len(checks) :
              LET ck == checks[i]
              IN  /\ (~force /\ Selected(i)) =>
                        /\ \/ ck.severity = Some("Patch")
                           \/ ck.severity = Some("Minor") /\ include_minor
                        /\ IsSome(ck.target_spec)
                        /\ HandedOver(i, WrittenFor(Unwrap(ck.target_spec)))
                  /\ (~force /\ ck.severity \in {None, Some("Major")}) => ~Selected(i)
                  /\ (force /\ IsSome(ck.force_spec)) =>
                        HandedOver(i, WrittenFor(Unwrap(ck.force_spec)))
                  /\ (force /\ IsNone(ck.force_spec)) => ~Selected(i)
        /\ Outcome.ok =>
              \A f \in Outcome.modified_files :
                  \E i \in 1..Len(checks) :
                      Selected(i) /\ checks[i].dependency.source_file = f
        /\ \A f \in Outcome.written :
              \E i \in 1..Len(checks) :
                  Selected(i) /\ checks[i].dependency.source_file = f

\* a patch update in one file and a minor update in another, patch only:
\* the first file alone is modified
C21_Witness ==
    /\ Updated /\ Outcome.ok
    /\ ~force /\ ~include_minor
    /\ Len(checks) = 2
    /\ checks[1].severity = Some("Patch") /\ IsSome(checks[1].target_spec)
    /\ checks[1].dependency.source_file = "requirements.txt"
    /\ checks[2].severity = Some("Minor") /\ IsSome(checks[2].target_spec)
    /\ checks[2].dependency.source_file = "pyproject.toml"
    /\ Outcome.modified_files = {"requirements.txt"}

(***************************************************************************)
(* Properties of resolve with respect to the installed and the declared    *)
(* version (SpecRes).                                                      *)
(***************************************************************************)
Rewritten == Resolved /\ IsSome(Check.update_to)
CarriesVersion == Rewritten /\ IsSome(base_version(Unwrap(Check.update_to)))

\* C22: whenever an installed version is given and resolve returns a
\* rewritten spec, the version the rewritten spec carries is at least the
\* installed version, for every spec variant and every flag combination.
C22_NoDowngrade ==
    (CarriesVersion /\ IsSome(installed)) => VGe(RewrittenBase, Unwrap(installed))

\* where the guard against a downgrade acts: every declared spec other than
\* a Pinned one.  The rewrite of a Pinned spec does not look at the
\* installed version: it carries the absolute latest version under the
\* force flag and otherwise the highest available version of the major of
\* the pinned version.
C22_NoDowngradeUnlessPinned ==
    (CarriesVersion /\ IsSome(installed)) =>
        /\ Declared.kind # "Pinned" => VGe(RewrittenBase, Unwrap(installed))
        /\ (Declared.kind = "Pinned" /\ args.force_latest) =>
              RewrittenBase = package_info.latest
        /\ (Declared.kind = "Pinned" /\ ~args.force_latest) =>
              IsMaximumOf(Some(RewrittenBase), Versions, OnPinnedMajor)

\* ^1.0.0 with 1.0.0 installed and 1.1.0 available is rewritten to ^1.1.0
C22_CaretRewritten ==
    /\ CarriesVersion
    /\ ~args.force_latest
    /\ Declared = Caret(Lit3(1, 0, 0))
    /\ installed = Some(Lit3(1, 0, 0))
    /\ Check.update_to = Some(Caret(Lit3(1, 1, 0)))
    /\ VGt(RewrittenBase, Unwrap(installed))

DeclaredBase == Unwrap(base_version(Declared))
HasDeclaredBase == IsSome(base_version(Declared))

\* C24 as stated: whenever resolve returns a rewritten spec for a
\* dependency whose declared spec has a base version, the base version of
\* the rewritten spec is strictly greater than the declared one.
C24_RewriteRaisesBase ==
    (Rewritten /\ HasDeclaredBase) => VGt(RewrittenBase, DeclaredBase)

\* C24 amended: the rewritten base version always differs from the declared
\* one.  Without the force flag it is strictly greater for Minimum,
\* GreaterThan, Caret, Tilde, Compatible and Range, and strictly lower for
\* LessThan, and not greater for Maximum; for NotEqual, for Pinned under
\* the minor flag and for every variant under the force flag it may lie on
\* either side.
C24_RewriteChangesBase ==
    (Rewritten /\ HasDeclaredBase) =>
        /\ ~VersionEq(RewrittenBase, DeclaredBase)
        /\ (~args.force_latest /\ Declared.kind \in
                {"Minimum", "GreaterThan", "Caret", "Tilde", "Compatible", "Range"}) =>
              VGt(RewrittenBase, DeclaredBase)
        /\ (~args.force_latest /\ Declared.kind = "LessThan") =>
              VLt(RewrittenBase, DeclaredBase)
        /\ (~args.force_latest /\ Declared.kind = "Maximum") =>
              VLe(RewrittenBase, DeclaredBase)

\* <=2.0.0 with 1.0.0 and 1.1.0 available is rewritten to <=1.1.0
C24_Witness ==
    /\ Rewritten
    /\ ~args.force_latest
    /\ Declared = Maximum(Lit3(2, 0, 0))
    /\ Versions = << Lit3(1, 0, 0), Lit3(1, 1, 0) >>
    /\ Check.update_to = Some(Maximum(Lit3(1, 1, 0)))

(***************************************************************************)
(* Properties of a retargeted spec (SpecSat).                              *)
(***************************************************************************)
Retargeted == Applied("with_version")

AdmittingKinds ==
    {"Pinned", "Minimum", "Maximum", "Caret", "Tilde", "Compatible", "Range"}

\* C23: for every spec of variant Pinned, Minimum, Maximum, Caret, Tilde,
\* Compatible or Range and every version v, with_version(spec, v) returns
\* a spec that v satisfies, and a retargeted Range has min < max.
C23_RetargetAdmits ==
    /\ (Retargeted /\ spec.kind \in AdmittingKinds) =>
          /\ satisfies(Result, version)
          /\ Result.kind = "Range" => VLt(Result.min, Result.max)
    /\ ~Applied("panic")

\* the same for every version whose major is below u64::MAX, where
\* with_version always returns
C23_RetargetAdmitsBelowMax ==
    /\ (Retargeted /\ spec.kind \in AdmittingKinds /\ version.major < U64Max) =>
          /\ satisfies(Result, version)
          /\ Result.kind = "Range" => VLt(Result.min, Result.max)
    /\ Applied("panic") => version.major = U64Max

\* a range retargeted beyond its upper bound
C23_RangeBeyondMax ==
    /\ Retargeted
    /\ spec.kind = "Range" /\ VGe(version, spec.max) /\ version.major < U64Max
    /\ Result = Range(version, VersionNew(version.major + 1, 0, 0))

(***************************************************************************)
(* Severity of the updates that are real in Version order (SpecSev).       *)
(***************************************************************************)
RealUpdate ==
    /\ Classified
    /\ IsSome(CurrentOf(Check)) /\ IsSome(TargetOf(Check))
    /\ VGt(Unwrap(TargetOf(Check)), Unwrap(CurrentOf(Check)))

SameRelease(v, w) == v.major = w.major /\ v.minor = w.minor /\ v.patch = w.patch

\* C25: whenever the target version is strictly greater than the current
\* version in Version order, a move from a pre-release to the final
\* release of the same major.minor.patch included, the severity is one of
\* Major, Minor and Patch.
C25_RealUpdateHasSeverity ==
    RealUpdate => Severity \in {Some("Major"), Some("Minor"), Some("Patch")}

\* C25 amended: a real update has a severity exactly when target and
\* current differ in major, minor or patch; a move within one
\* major.minor.patch (from a pre-release to the final release, or between
\* pre-releases) has none.
C25_SeverityIffReleaseDiffers ==
    RealUpdate =>
        (Severity \in {Some("Major"), Some("Minor"), Some("Patch")}
            <=> ~SameRelease(Unwrap(TargetOf(Check)), Unwrap(CurrentOf(Check))))

\* 1.0.0rc1 installed and ^1.0.0 the rewritten spec: no severity
C25_CandidateToFinal ==
    /\ RealUpdate
    /\ is_prerelease(Unwrap(CurrentOf(Check)))
    /\ Unwrap(TargetOf(Check)) = Lit3(1, 0, 0)
    /\ SameRelease(Unwrap(TargetOf(Check)), Unwrap(CurrentOf(Check)))
    /\ Severity = None

(***************************************************************************)
(* Wildcards of a major.minor series (SpecSat).                            *)
(***************************************************************************)
SeriesOf(sp) == Split(sp.prefix, ".")

\* a Wildcard whose prefix is 'M.m', in plain decimals
IsSeries(sp) ==
    /\ sp.kind = "Wildcard"
    /\ Len(SeriesOf(sp)) = 2
    /\ IsSome(ParseU64(SeriesOf(sp)[1])) /\ IsSome(ParseU64(SeriesOf(sp)[2]))
    /\ sp.prefix = FmtU64(Unwrap(ParseU64(SeriesOf(sp)[1]))) \o <<".">>
                      \o FmtU64(Unwrap(ParseU64(SeriesOf(sp)[2])))

SeriesMajor(sp) == Unwrap(ParseU64(SeriesOf(sp)[1]))
SeriesMinor(sp) == Unwrap(ParseU64(SeriesOf(sp)[2]))

\* the literal of the version has a minor segment
WritesMinor(v) == Len(Split(v.original, ".")) >= 2

\* the literal of the version starts with its major and minor in plain
\* decimals
WritesPlainly(v) ==
    StartsWith(v.original, FmtU64(v.major) \o <<".">> \o FmtU64(v.minor))

\* C26 as stated: a Wildcard whose prefix is 'M.m', parsed or produced by
\* with_version, is satisfied by v if and only if v.major = M and
\* v.minor = m.
C26_SeriesOnly ==
    (Applied("satisfies") /\ IsSeries(spec)) =>
        (Result <=> (version.major = SeriesMajor(spec)
                     /\ version.minor = SeriesMinor(spec)))

\* C26 amended: the test is on the literal of v, which has to start with
\* 'M.m'.  A version it admits has major M and, when its literal is in
\* plain decimals, a minor whose decimals start with those of m (1.1.*
\* admits 1.10.0); a version of major M and minor m is admitted when its
\* literal writes both in plain decimals (the version '1' is not admitted
\* by 1.0.*).  with_version gives a Wildcard the prefix 'M.m' of the new
\* version.
C26_SeriesByLiteral ==
    /\ (Applied("satisfies") /\ IsSeries(spec)) =>
          /\ Result => version.major = SeriesMajor(spec)
          /\ (Result /\ WritesPlainly(version)) =>
                StartsWith(FmtU64(version.minor), FmtU64(SeriesMinor(spec)))
          /\ (version.major = SeriesMajor(spec) /\ version.minor = SeriesMinor(spec)
              /\ WritesPlainly(version)) => Result
          /\ ~WritesMinor(version) => ~Result
    /\ (Retargeted /\ spec.kind = "Wildcard") =>
          /\ IsSeries(Result)
          /\ SeriesMajor(Result) = version.major
          /\ SeriesMinor(Result) = version.minor

\* 1.1.* admits 1.1.0
C26_Witness ==
    /\ Applied("satisfies") /\ IsSeries(spec)
    /\ SeriesMajor(spec) = 1 /\ SeriesMinor(spec) = 1
    /\ version = Lit3(1, 1, 0)
    /\ Result

\* 1.1.* admits 1.10.0 as well
C26_WitnessLongerMinor ==
    /\ Applied("satisfies") /\ IsSeries(spec)
    /\ SeriesMajor(spec) = 1 /\ SeriesMinor(spec) = 1
    /\ version.minor = 10
    /\ Result

(***************************************************************************)
(* Properties of get_packages (SpecNet).                                   *)
(***************************************************************************)
Fetching == pc # None
Returned == IsSome(returned)
Answer == Unwrap(returned)

Requested == {names[i] : i \in DOMAIN names}
Succeeded == {names[i] : i \in {j \in DOMAIN names : outcome[j] = "ok"}}
Failed == {names[i] : i \in {j \in DOMAIN names : outcome[j] = "err"}}

\* the error strings of the answer that are about the name
ErrorsAbout(errors, name) ==
    {k \in 1..Len(errors) : StartsWith(errors[k], name \o <<":", " ">>)}

InFlight == {i \in DOMAIN pc : pc[i] = "fetching"}
Finished == {i \in DOMAIN pc : pc[i] = "finished"}
CallsSoFar == IF callback = "set_position" THEN Len(progress) ELSE progress

\* C28: at every moment at most 10 (PyPI) or 5 (crates.io) requests are in
\* flight; a task holds its permit from before its request starts until
\* after its progress callback has run: every task in flight holds one of
\* the permits, and a permit has come back only for a task whose callback
\* has run.
C28_PermitsBoundRequests ==
    Fetching =>
        /\ Cardinality(InFlight) <= (IF client = "pypi" THEN 10 ELSE 5)
        /\ permits + Cardinality(InFlight) = (IF client = "pypi" THEN 10 ELSE 5)
        /\ CallsSoFar = Cardinality(Finished)

\* ten requests to PyPI in flight and an eleventh task waiting for a permit
C28_Witness ==
    /\ Fetching
    /\ client = "pypi"
    /\ Cardinality(InFlight) = 10
    /\ permits = 0
    /\ \E i \in DOMAIN pc : pc[i] = "spawned"

NonDecreasing(q) == \A k \in 1..(Len(q) - 1) : q[k] <= q[k + 1]

\* C29: the progress callback is invoked exactly once per requested name,
\* the `current` of each call is the number of fetches completed so far,
\* and the reported positions are non-decreasing and end at total, under
\* every interleaving of the tasks.
C29_ProgressCounts ==
    (Fetching /\ callback = "set_position") =>
        /\ \A k \in 1..Len(progress) : progress[k] = k
        /\ NonDecreasing(progress)
        /\ Returned =>
              /\ Len(progress) = Len(names)
              /\ Len(names) > 0 => progress[Len(progress)] = Len(names)

\* what holds instead: once every task is through, each position 1..total
\* has been reported exactly once, in the order the tasks completed
C29_EachPositionOnce ==
    (Fetching /\ callback = "set_position") =>
        /\ Len(progress) = Cardinality(Finished)
        /\ \A k \in 1..Len(progress) : progress[k] \in Finished
        /\ \A k, l \in 1..Len(progress) : k # l => progress[k] # progress[l]

\* the second of two tasks completes first: position 2, then position 1
C29_SecondFirst ==
    /\ Fetching /\ callback = "set_position"
    /\ Returned
    /\ progress = << 2, 1 >>

(***************************************************************************)
(* Properties of global mode (SpecGlo).                                    *)
(***************************************************************************)
Checked == IsSome(check)
GlobalInfo == Unwrap(package_info)

OnInstalledMajor ==
    {i \in 1..Len(GlobalInfo.versions) :
        GlobalInfo.versions[i].major = installed.major}

C30_WitnessOtherMajor ==
    /\ Checked /\ args.minor
    /\ installed = Lit3(1, 0, 0)
    /\ GlobalInfo.versions = << Lit3(2, 0, 0) >>
    /\ Check.latest = Lit3(2, 0, 0)
    /\ Check.has_update

\* the severity of a GlobalCheck (C25, global mode): none without an
\* update; with an update, one exactly when target and installed version
\* differ in major, minor or patch
C25_GlobalSeverityIffReleaseDiffers ==
    (Checked /\ Classified) =>
        /\ ~Check.has_update => Severity = None
        /\ Check.has_update =>
              (Severity \in {Some("Major"), Some("Minor"), Some("Patch")}
                  <=> ~SameRelease(Check.latest, installed))

====
